---- MODULE Spec2Model ----
(***************************************************************************)
(* A model of the ChromeOS EC flash programmer of flashrom (cros_ec.c):    *)
(* the session state kept in cros_ec_priv and in the file's static         *)
(* variables, the EC behind the ec_command() channel, and one action per   *)
(* caller-facing operation (prepare, erase, write, read, need_2nd_pass,    *)
(* finish).  Each action is a whole call; the EC's answers to the          *)
(* commands of that call are the inputs of the action.                     *)
(***************************************************************************)
EXTENDS Integers, Sequences, FiniteSets, TLC

(***************************************************************************)
(* Program constants.                                                      *)
(***************************************************************************)
\* enum ec_current_image, in the order of sections[] (cros_ec.c:68-72)
EC_IMAGE_UNKNOWN == 0
EC_IMAGE_RO == 1
EC_IMAGE_RW == 2
\* ARRAY_SIZE(fwcopy) - 1: fwcopy[0] is not used (cros_ec.c:65)
FWCOPY_LAST == 3

\* enum ec_reboot_cmd (cros_ec_commands.h)
EC_REBOOT_JUMP_RO == 1
EC_REBOOT_JUMP_RW == 2
EC_REBOOT_COLD == 4

\* enum ec_status (cros_ec_commands.h); ec_command() returns -EC_RES_x
EC_RES_SUCCESS == 0
EC_RES_ERROR == 2
EC_RES_ACCESS_DENIED == 4
EC_RES_BUSY == 16

\* spi.h: the "denied" result of erase and write
SPI_ACCESS_DENIED == -7

\* enum ec_flash_erase_cmd (cros_ec_commands.h)
FLASH_ERASE_SECTOR == 0
FLASH_ERASE_SECTOR_ASYNC == 1
FLASH_ERASE_GET_RESULT == 2

\* sizeof(struct ec_params_flash_write): uint32_t offset, size
WRITE_HEADER_SIZE == 8

\* a threshold that no block of the model reaches
SmallRegionThresholdOneMiB == 1024 * 1024

FLASH_SMALL_REGION_THRESHOLD == 16 * 1024
EC_INIT_DELAY == 800000
EC_RWSIG_JUMP_TO_RW_DELAY == 3000000
CROS_EC_ERASE_ASYNC_TIMEOUT == 10000000
CROS_EC_ERASE_ASYNC_WAIT == 500000

(***************************************************************************)
(* Bounds of the model.                                                    *)
(***************************************************************************)
\* width of an unsigned int in the model (the code has 32 bits)
WordBits == 20
\* longest buffer handed to a write call between the other calls
MaxWriteLen == 2
\* longest buffer handed to a write call when only write runs
MaxLongWriteLen == 4
\* most polls a device of the model answers "busy" before it completes: as
\* many as the wait loop of erase allows
MaxBusyPolls == 20

WordMod == 2 ^ WordBits
U32(x) == x % WordMod

Min(a, b) == IF a < b THEN a ELSE b

(***************************************************************************)
(* The state.                                                              *)
(***************************************************************************)
VARIABLES
    \* the EC
    dev_image,          \* the copy the EC executes: EC_IMAGE_RO or EC_IMAGE_RW
    dev_features,       \* the feature bits the EC reports (flags[0])
    dev_wp,             \* the EC's software write-protect latch is set
    \* the build and the caller
    enum_signed,        \* the compiler gave enum ec_current_image a signed type
    detected,           \* cros_ec_priv->detected
    \* the session
    current_image,      \* cros_ec_priv->current_image
    need_2nd_pass,      \* static int need_2nd_pass
    rwsig_enabled,      \* static int rwsig_enabled
    fwcopy,             \* static struct fmap_area fwcopy[4], indices 1..3
    features_cached,    \* ec_check_features: static r holds the EC's answer
    shutdown_fns,       \* how many cros_ec_restore_wp are registered
    \* history
    last,               \* the call that just returned, or Idle
    prior,              \* what the call before that one was, see Summary
    denied_since_jump,  \* an erase/write was denied after the last successful jump
    wp_disabled         \* cros_ec_prepare cleared the EC's latch in this process

vars == <<dev_image, dev_features, dev_wp, enum_signed, detected, current_image,
          need_2nd_pass, rwsig_enabled, fwcopy, features_cached, shutdown_fns,
          last, prior, denied_since_jump, wp_disabled>>

Images == {EC_IMAGE_RO, EC_IMAGE_RW}
Features == {"RWSIG", "EXEC_IN_RAM"}

\* struct ec_response_flash_region_info regions[], as the EC of the model
\* reports them to cros_ec_probe_size (regions[0] stays zeroed)
region ==
    [i \in 0..2 |->
        CASE i = EC_IMAGE_RO -> [offset |-> 0, size |-> 131072]
          [] i = EC_IMAGE_RW -> [offset |-> 131072, size |-> 131072]
          [] OTHER -> [offset |-> 0, size |-> 0]]

\* cros_ec_priv->ideal_write_size, as probed
ideal_write_size == 2

ZeroArea == [offset |-> 0, size |-> 0, flags |-> 0]

\* the mutable state threaded through the functions of a call
State ==
    [image |-> dev_image, wp |-> dev_wp, cur |-> current_image,
     need |-> need_2nd_pass, rwsig |-> rwsig_enabled, fw |-> fwcopy,
     cache |-> features_cached, hooks |-> shutdown_fns]

Commit(s) ==
    /\ dev_image' = s.image
    /\ dev_wp' = s.wp
    /\ current_image' = s.cur
    /\ need_2nd_pass' = s.need
    /\ rwsig_enabled' = s.rwsig
    /\ fwcopy' = s.fw
    /\ features_cached' = s.cache
    /\ shutdown_fns' = s.hooks
    /\ UNCHANGED <<dev_features, enum_signed, detected>>

\* one entry of a call's trace: a command on the channel, or a usleep()
Ev(cmd, ver, arg, offset, size, data) ==
    [cmd |-> cmd, ver |-> ver, arg |-> arg, offset |-> offset, size |-> size,
     data |-> data]
Cmd(cmd, ver, arg) == Ev(cmd, ver, arg, 0, 0, <<>>)
Sleep(usec) == Ev("usleep", 0, usec, 0, 0, <<>>)

\* what a function hands back: the state, its return code and its trace
Ret(s, rc, ev) == [s |-> s, rc |-> rc, ev |-> ev]

\* negative statuses the channel can return besides access-denied and busy
TransportErrors == {-EC_RES_ERROR}
ChannelRc == {0} \cup TransportErrors

(***************************************************************************)
(* The helpers of cros_ec.c.                                               *)
(***************************************************************************)

\* cros_ec_invalidate_copy (cros_ec.c:92-104): which copies it marks old
InvalidateHits(fw, addr, len) ==
    {i \in EC_IMAGE_RO..FWCOPY_LAST :
        \/ (addr >= fw[i].offset /\ addr < U32(fw[i].offset + fw[i].size))
        \/ (fw[i].offset >= addr /\ fw[i].offset < U32(addr + len))}

\* a cros_ec_invalidate_copy that marks nothing
invalidate_nothing(fw, addr, len) == fw

cros_ec_invalidate_copy(fw, addr, len) ==
    [i \in EC_IMAGE_RO..FWCOPY_LAST |->
        IF i \in InvalidateHits(fw, addr, len)
        THEN [fw[i] EXCEPT !.flags = 0]
        ELSE fw[i]]

\* an in_current_image that looks at the first byte of the range only
in_current_image_first_byte(image, addr, len) ==
    LET region_offset == region[image].offset
        region_size == region[image].size
    IN  IF \/ addr < region_offset
           \/ addr > U32(region_offset + region_size - 1)
        THEN 0
        ELSE 1

\* a test that compares the exclusive ends
in_region_exclusive(addr, len, region_offset, region_size) ==
    IF \/ U32(addr + len) < region_offset
       \/ addr > U32(region_offset + region_size)
    THEN 0
    ELSE 1

\* the test of in_current_image (cros_ec.c:570-574), in unsigned arithmetic
in_region(addr, len, region_offset, region_size) ==
    IF \/ U32(addr + len - 1) < region_offset
       \/ addr > U32(region_offset + region_size - 1)
    THEN 0
    ELSE 1

\* in_current_image (cros_ec.c:560-575)
in_current_image(image, addr, len) ==
    in_region(addr, len, region[image].offset, region[image].size)

\* ec_check_features (cros_ec.c:158-175).  The answer is cached once a
\* query returned a non-zero flags[0]; frc is the channel's status if the
\* EC must be asked.
ec_check_features(s, feature, frc) ==
    LET bit == IF feature \in dev_features THEN 1 ELSE 0
    IN  IF s.cache
        THEN Ret(s, bit, <<>>)
        ELSE IF frc < 0
             THEN Ret(s, frc, <<Cmd("GET_FEATURES", 0, 0)>>)
             ELSE Ret([s EXCEPT !.cache = (dev_features # {})], bit,
                      <<Cmd("GET_FEATURES", 0, 0)>>)

\* the statuses worth trying for a feature query in state s
FeatureRc(s) == IF s.cache THEN {0} ELSE ChannelRc

\* cros_ec_get_current_image (cros_ec.c:107-124).  q is the EC's answer to
\* GET_VERSION: a negative status, or "unknown" / "image" for a reply that
\* names no copy / the executing copy.
GetVersionReplies == {"image", "unknown", "error"}

cros_ec_get_current_image(s, q) ==
    CASE q = "error" -> -EC_RES_ERROR
      [] q = "unknown" -> -1
      [] OTHER -> s.image

\* a translation that prefers RW to RO when the target is unspecified
JumpCommandRwFirst(target, rwsig, fw) ==
    CASE target = EC_IMAGE_RO ->
            [cmd |-> IF rwsig THEN EC_REBOOT_COLD ELSE EC_REBOOT_JUMP_RO,
             target |-> EC_IMAGE_RO]
      [] target = EC_IMAGE_RW ->
            [cmd |-> EC_REBOOT_JUMP_RW, target |-> EC_IMAGE_RW]
      [] OTHER ->
            IF fw[EC_IMAGE_RW].flags # 0
            THEN [cmd |-> EC_REBOOT_JUMP_RW, target |-> EC_IMAGE_RW]
            ELSE IF fw[EC_IMAGE_RO].flags # 0
                 THEN [cmd |-> EC_REBOOT_JUMP_RO, target |-> EC_IMAGE_RO]
                 ELSE [cmd |-> 0, target |-> target]

\* cros_ec_jump_copy, lines 259-292: target --> reboot command and the
\* target to record; cmd = 0 when no copy is eligible
JumpCommand(target, rwsig, fw) ==
    CASE target = EC_IMAGE_RO ->
            [cmd |-> IF rwsig THEN EC_REBOOT_COLD ELSE EC_REBOOT_JUMP_RO,
             target |-> EC_IMAGE_RO]
      [] target = EC_IMAGE_RW ->
            [cmd |-> EC_REBOOT_JUMP_RW, target |-> EC_IMAGE_RW]
      [] OTHER ->
            IF fw[EC_IMAGE_RO].flags # 0
            THEN [cmd |-> EC_REBOOT_JUMP_RO, target |-> EC_IMAGE_RO]
            ELSE IF fw[EC_IMAGE_RW].flags # 0
                 THEN [cmd |-> EC_REBOOT_JUMP_RW, target |-> EC_IMAGE_RW]
                 ELSE [cmd |-> 0, target |-> target]

\* The EC after a REBOOT_EC command it accepted.  A cold reboot starts RO;
\* an EC with RWSIG then goes on into RW by itself when its RW signature
\* verifies (sig) unless the pending jump was aborted.
ImageAfterReboot(cmd, aborted, sig) ==
    CASE cmd = EC_REBOOT_JUMP_RO -> EC_IMAGE_RO
      [] cmd = EC_REBOOT_JUMP_RW -> EC_IMAGE_RW
      [] OTHER ->
            IF "RWSIG" \in dev_features /\ sig /\ ~aborted
            THEN EC_IMAGE_RW
            ELSE EC_IMAGE_RO

\* what a jump reports besides its return code
JumpInfo(called, target, resolved, queried, rebooted, rc) ==
    [called |-> called, target |-> target, resolved |-> resolved,
     queried |-> queried, rebooted |-> rebooted, rc |-> rc]
NoJump == JumpInfo(FALSE, 0, 0, 0, FALSE, 0)

\* had the test "current_image < 0" of line 252 any effect
QueryFailed(ci) == enum_signed /\ ci < 0

\* a test of line 299 that never finds the EC in the copy asked for
NeverAlreadyIn(ci, cmd) == FALSE

\* "current_image == p.cmd" (cros_ec.c:299): the EC reports the copy that the
\* reboot command would start
AlreadyIn(ci, cmd) == ci = cmd

\* a jump that aborts the RWSIG jump after every reboot, whatever the target
jump_copy_always_aborts(s, target, in) ==
    LET ci == cros_ec_get_current_image(s, in.q)
        q == <<Cmd("GET_VERSION", 0, 0)>>
        p == JumpCommand(target, s.rwsig, s.fw)
        reboot == <<Cmd("REBOOT_EC", 0, p.cmd), Sleep(EC_INIT_DELAY)>>
        done == [s EXCEPT !.cur = p.target,
                          !.image = ImageAfterReboot(p.cmd, in.ab >= 0, in.sig)]
    IN  IF QueryFailed(ci)
        THEN Ret(s, 1, q) @@ [j |-> JumpInfo(TRUE, target, 0, ci, FALSE, 1)]
        ELSE IF ci = target
        THEN Ret(s, 0, q) @@ [j |-> JumpInfo(TRUE, target, target, ci, FALSE, 0)]
        ELSE IF p.cmd = 0
        THEN Ret(s, 1, q) @@ [j |-> JumpInfo(TRUE, target, 0, ci, FALSE, 1)]
        ELSE IF AlreadyIn(ci, p.cmd)
        THEN Ret([s EXCEPT !.cur = p.target], 0, q)
                @@ [j |-> JumpInfo(TRUE, target, p.target, ci, FALSE, 0)]
        ELSE IF in.rb < 0
        THEN Ret(s, in.rb, q \o <<Cmd("REBOOT_EC", 0, p.cmd)>>)
                @@ [j |-> JumpInfo(TRUE, target, p.target, ci, FALSE, in.rb)]
        ELSE Ret(done, EC_RES_SUCCESS, q \o reboot \o <<Cmd("RWSIG_ACTION", 0, 0)>>)
                @@ [j |-> JumpInfo(TRUE, target, p.target, ci, TRUE, EC_RES_SUCCESS)]

\* cros_ec_jump_copy (cros_ec.c:240-327).  in.q: the GET_VERSION reply,
\* in.rb: the status of REBOOT_EC, in.ab: the status of RWSIG_ACTION,
\* in.sig: the EC's RW signature verifies.
cros_ec_jump_copy(s, target, in) ==
    LET ci == cros_ec_get_current_image(s, in.q)
        q == <<Cmd("GET_VERSION", 0, 0)>>
        p == JumpCommand(target, s.rwsig, s.fw)
        abort == p.target = EC_IMAGE_RO /\ s.rwsig
        reboot == <<Cmd("REBOOT_EC", 0, p.cmd), Sleep(EC_INIT_DELAY)>>
        done == [s EXCEPT !.cur = p.target,
                          !.image = ImageAfterReboot(p.cmd, abort /\ in.ab >= 0,
                                                     in.sig)]
    IN  IF QueryFailed(ci)
        THEN Ret(s, 1, q) @@ [j |-> JumpInfo(TRUE, target, 0, ci, FALSE, 1)]
        ELSE IF ci = target
        THEN Ret(s, 0, q) @@ [j |-> JumpInfo(TRUE, target, target, ci, FALSE, 0)]
        ELSE IF p.cmd = 0
        THEN Ret(s, 1, q) @@ [j |-> JumpInfo(TRUE, target, 0, ci, FALSE, 1)]
        ELSE IF AlreadyIn(ci, p.cmd)
        THEN Ret([s EXCEPT !.cur = p.target], 0, q)
                @@ [j |-> JumpInfo(TRUE, target, p.target, ci, FALSE, 0)]
        ELSE IF in.rb < 0
        THEN Ret(s, in.rb, q \o <<Cmd("REBOOT_EC", 0, p.cmd)>>)
                @@ [j |-> JumpInfo(TRUE, target, p.target, ci, FALSE, in.rb)]
        ELSE Ret(done, EC_RES_SUCCESS,
                 q \o reboot
                   \o (IF abort THEN <<Cmd("RWSIG_ACTION", 0, 0)>> ELSE <<>>))
                @@ [j |-> JumpInfo(TRUE, target, p.target, ci, TRUE, EC_RES_SUCCESS)]

\* the inputs worth trying for a jump in state s
JumpInputs(s) ==
    [q : GetVersionReplies, rb : ChannelRc,
     ab : IF s.rwsig THEN ChannelRc ELSE {0},
     sig : IF s.rwsig THEN BOOLEAN ELSE {TRUE}]

(***************************************************************************)
(* Erase.                                                                  *)
(***************************************************************************)

\* ec_get_cmd_versions + "31 - __builtin_clz(mask)" (cros_ec.c:594-599):
\* the highest set bit; for mask = 0 the builtin is undefined and ub is the
\* version the build happens to compute
ClzZeroVersions == {-1, 0}

RECURSIVE HighestBit(_)
HighestBit(mask) == IF mask <= 1 THEN 0 ELSE 1 + HighestBit(mask \div 2)

CmdVersion(mask, ub) == IF mask = 0 THEN ub ELSE HighestBit(mask)

\* the status of the n-th FLASH_ERASE_GET_RESULT: the EC answers in.prc to
\* the first in.busy polls (to all of them if in.busy < 0), then in.fin
PollRc(in, n) == IF in.busy < 0 \/ n <= in.busy THEN in.prc ELSE in.fin

EraseEv(ver, cmd, blockaddr, len) == Ev("FLASH_ERASE", ver, cmd, blockaddr, len, <<>>)

\* a wait loop that polls once more when the time is up
RECURSIVE EraseWaitOneMore(_, _, _, _, _, _, _, _)
EraseWaitOneMore(rc, timeout, n, in, ver, blockaddr, len, ev) ==
    IF rc < 0 /\ timeout <= CROS_EC_ERASE_ASYNC_TIMEOUT
    THEN EraseWaitOneMore(PollRc(in, n + 1), timeout + CROS_EC_ERASE_ASYNC_WAIT,
                          n + 1, in, ver, blockaddr, len,
                          ev \o <<Sleep(CROS_EC_ERASE_ASYNC_WAIT),
                                  EraseEv(ver, FLASH_ERASE_GET_RESULT, blockaddr, len)>>)
    ELSE [rc |-> rc, ev |-> ev]

\* a wait that asks for the result once and takes whatever comes
EraseWaitOnce(rc, timeout, n, in, ver, blockaddr, len, ev) ==
    [rc |-> PollRc(in, n + 1),
     ev |-> ev \o <<Sleep(CROS_EC_ERASE_ASYNC_WAIT),
                    EraseEv(ver, FLASH_ERASE_GET_RESULT, blockaddr, len)>>]

\* the wait loop of cros_ec_block_erase (cros_ec.c:645-658)
RECURSIVE EraseWait(_, _, _, _, _, _, _, _)
EraseWait(rc, timeout, n, in, ver, blockaddr, len, ev) ==
    IF rc < 0 /\ timeout < CROS_EC_ERASE_ASYNC_TIMEOUT
    THEN EraseWait(PollRc(in, n + 1), timeout + CROS_EC_ERASE_ASYNC_WAIT, n + 1,
                   in, ver, blockaddr, len,
                   ev \o <<Sleep(CROS_EC_ERASE_ASYNC_WAIT),
                           EraseEv(ver, FLASH_ERASE_GET_RESULT, blockaddr, len)>>)
    ELSE [rc |-> rc, ev |-> ev]

\* end_flash_erase (cros_ec.c:665-673)
EndFlashErase(rc) == IF rc > 0 THEN -EC_RES_SUCCESS ELSE rc

\* a denied exit that asks for no 2nd pass
DeniedWithoutRetry(s, addr, len, ev) ==
    Ret([s EXCEPT !.fw = cros_ec_invalidate_copy(s.fw, addr, len)],
        SPI_ACCESS_DENIED, ev)

\* an exit that hands the status of the EC on and marks nothing
DeniedAsError(s, addr, len, ev) == Ret(s, -EC_RES_ACCESS_DENIED, ev)

\* a denied exit that marks the copies old, asks for a 2nd pass and
\* returns 0
DeniedReportedOk(s, addr, len, ev) ==
    Ret([s EXCEPT !.fw = cros_ec_invalidate_copy(s.fw, addr, len), !.need = TRUE],
        EC_RES_SUCCESS, ev)

\* the denied exit of erase and write: mark the copies old, ask for a 2nd pass
Denied(s, addr, len, ev) ==
    Ret([s EXCEPT !.fw = cros_ec_invalidate_copy(s.fw, addr, len), !.need = TRUE],
        SPI_ACCESS_DENIED, ev)

\* cros_ec_block_erase (cros_ec.c:578-674).  in.f: status of the feature
\* query, in.vrc: status of GET_CMD_VERSIONS, in.mask: the version mask,
\* in.ub: see CmdVersion, in.e: status of the erase command, in.busy,
\* in.prc, in.fin: see PollRc.
cros_ec_block_erase(s, blockaddr, len, in) ==
    LET f == ec_check_features(s, "EXEC_IN_RAM", in.f)
        s1 == f.s
        v == <<Cmd("GET_CMD_VERSIONS", 0, 0)>>
        cmd_version == CmdVersion(in.mask, in.ub)
        cmd == IF len >= FLASH_SMALL_REGION_THRESHOLD
               THEN FLASH_ERASE_SECTOR_ASYNC
               ELSE FLASH_ERASE_SECTOR
        e0 == f.ev \o v \o <<EraseEv(0, 0, blockaddr, len)>>
        e1 == f.ev \o v \o <<EraseEv(cmd_version, cmd, blockaddr, len)>>
        w == EraseWait(-EC_RES_BUSY, 0, 0, in, cmd_version, blockaddr, len, e1)
    IN  IF f.rc <= 0 /\ in_current_image(s1.cur, blockaddr, len) = 1
        THEN Denied(s1, blockaddr, len, f.ev)
        ELSE IF in.vrc < 0
        THEN Ret(s1, 0, f.ev \o v)
        ELSE IF cmd_version = 0
        THEN IF in.e = -EC_RES_ACCESS_DENIED
             THEN Denied(s1, blockaddr, len, e0)
             ELSE IF in.e < 0
                  THEN Ret(s1, in.e, e0)
                  ELSE Ret(s1, EndFlashErase(in.e), e0)
        ELSE IF in.e = -EC_RES_ACCESS_DENIED
        THEN Denied(s1, blockaddr, len, e1)
        ELSE IF in.e # 0
        THEN Ret(s1, in.e, e1)
        ELSE IF len < FLASH_SMALL_REGION_THRESHOLD
        THEN Ret(s1, EndFlashErase(in.e), e1)
        ELSE IF w.rc < 0
             THEN Ret(s1, w.rc, w.ev)
             ELSE Ret(s1, EndFlashErase(w.rc), w.ev)

\* the blocks the caller erases: 4 KiB inside RO, 8 KiB across the RO/RW
\* border, 64 KiB inside RW
EraseRanges == {<<0, 4096>>, <<126976, 8192>>, <<131072, 65536>>}

\* more blocks, for the runs of erase alone: a block of exactly the
\* threshold inside RO, 4 KiB inside RW
MoreEraseRanges == EraseRanges \cup {<<0, 16384>>, <<131072, 4096>>}

EraseBase ==
    [f |-> 0, vrc |-> 0, mask |-> 1, ub |-> 0, e |-> 0, busy |-> 0,
     prc |-> -EC_RES_BUSY, fin |-> 0]

EraseRc == {0, 1, -EC_RES_ACCESS_DENIED, -EC_RES_BUSY} \cup TransportErrors

\* the answers of the EC tried for an erase of len bytes between the other
\* calls: versions 0 and 1, the erase accepted, denied or failing, and a
\* device that is busy for one poll or for ever
EraseInputs(s, len) ==
    LET plans ==
            {[EraseBase EXCEPT !.vrc = x] : x \in TransportErrors}
            \cup {[EraseBase EXCEPT !.mask = m, !.e = e] :
                    m \in 1..2, e \in {0, -EC_RES_ACCESS_DENIED} \cup TransportErrors}
            \cup (IF len >= FLASH_SMALL_REGION_THRESHOLD
                  THEN {[EraseBase EXCEPT !.mask = 2, !.busy = b] : b \in {-1, 1}}
                  ELSE {})
    IN  {[pl EXCEPT !.f = x] : pl \in plans, x \in FeatureRc(s)}

\* all the answers of the model, for the runs of erase alone
MoreEraseInputs(s, len) ==
    LET plans ==
            {[EraseBase EXCEPT !.vrc = x] : x \in TransportErrors}
            \cup {[EraseBase EXCEPT !.mask = m, !.e = e] : m \in 1..3, e \in EraseRc}
            \cup {[EraseBase EXCEPT !.mask = 0, !.ub = u, !.e = e] :
                    u \in ClzZeroVersions, e \in EraseRc}
            \cup (IF len >= FLASH_SMALL_REGION_THRESHOLD
                  THEN {[EraseBase EXCEPT !.mask = 2, !.busy = b, !.prc = r, !.fin = x] :
                            b \in -1..MaxBusyPolls,
                            r \in {-EC_RES_BUSY} \cup TransportErrors,
                            x \in {0, 1}}
                  ELSE {})
    IN  {[pl EXCEPT !.f = x] : pl \in plans, x \in FeatureRc(s)}

(***************************************************************************)
(* Probe.                                                                  *)
(***************************************************************************)

\* EC_FLASH_WRITE_VER0_SIZE of cros_ec_commands.h
EC_FLASH_WRITE_VER0_SIZE == 64

\* what a probe that failed leaves of the geometry
NoGeo == [total_size |-> 0, blocks |-> <<>>, ideal |-> 0]

\* one struct ec_flash_bank of a FLASH_INFO v2 reply
Bank(count, size_exp, erase_size_exp) ==
    [count |-> count, size_exp |-> size_exp, erase_size_exp |-> erase_size_exp]

\* the return of cros_ec_probe_size: rc = 1 found, 0 not; crashed when the
\* process did not survive the call
Probed(s, rc, ev, geo, crashed) ==
    Ret(s, rc, ev) @@ [geo |-> geo, crashed |-> crashed]

\* FLASH_INFO v0/v1 (cros_ec.c:758-789).  The division of line 788 by an
\* erase block size of 0 is undefined: in.trap tells whether the build
\* traps, in.dz is the quotient it leaves otherwise.  For a version below
\* 0 the v1 fields are read from a v0 reply: in.junk.
ProbeInfo1(s, in, v, ev) ==
    LET e == ev \o <<Cmd("FLASH_INFO", v, 0)>>
        ideal == IF v = 0 THEN EC_FLASH_WRITE_VER0_SIZE
                 ELSE IF v > 0 THEN in.write_ideal_size ELSE in.junk
        size == IF in.override > 0 THEN in.override ELSE in.erase_block_size
        count == IF size = 0 THEN in.dz ELSE in.flash_size \div size
    IN  IF in.irc < 0
        THEN Probed(s, 0, e, NoGeo, FALSE)
        ELSE IF size = 0 /\ in.trap
        THEN Probed(s, 0, e, NoGeo, TRUE)
        ELSE Probed(s, 1, e,
                    [total_size |-> in.flash_size \div 1024,
                     blocks |-> <<[size |-> size, count |-> count]>>,
                     ideal |-> ideal],
                    FALSE)

\* FLASH_INFO v2 (cros_ec.c:790-850): asked twice, the second time for
\* all the banks.  When malloc fails (in.mok false) line 824 reads through
\* the null pointer: the build traps (in.trap) or goes on to return 0.
ProbeInfo2(s, in, v, ev) ==
    LET e1 == ev \o <<Cmd("FLASH_INFO", v, 0)>>
        e2 == e1 \o <<Cmd("FLASH_INFO", v, Len(in.banks))>>
        blocks == [i \in 1..Len(in.banks) |->
                      [size |-> IF in.override > 0
                                THEN in.override
                                ELSE U32(2 ^ in.banks[i].erase_size_exp),
                       count |-> U32(in.banks[i].count *
                                     2 ^ (in.banks[i].size_exp -
                                          in.banks[i].erase_size_exp))]]
    IN  IF in.irc < 0
        THEN Probed(s, 0, e1, NoGeo, FALSE)
        ELSE IF ~in.mok
        THEN Probed(s, 0, e1, NoGeo, in.trap)
        ELSE IF in.irc2 < 0
        THEN Probed(s, 0, e2, NoGeo, FALSE)
        ELSE Probed(s, 1, e2,
                    [total_size |-> in.flash_size \div 1024, blocks |-> blocks,
                     ideal |-> in.write_ideal_size],
                    FALSE)

\* cros_ec_probe_size (cros_ec.c:731-918).  in.q: the GET_VERSION reply,
\* in.vrc, in.mask, in.ub: GET_CMD_VERSIONS for FLASH_INFO, in.crc, in.sp,
\* in.r1, in.r2: statuses of GET_CHIP_INFO, FLASH_SPI_INFO and the two
\* FLASH_REGION_INFO; in.override: cros_ec_priv->erase_block_size.
cros_ec_probe_size(s, in) ==
    LET ci == cros_ec_get_current_image(s, in.q)
        e0 == <<Cmd("GET_VERSION", 0, 0)>>
        s1 == [s EXCEPT !.cur = ci]
        e1 == e0 \o <<Cmd("GET_CMD_VERSIONS", 0, 0)>>
        cmd_version == CmdVersion(in.mask, in.ub)
        g == IF cmd_version < 2
             THEN ProbeInfo1(s1, in, cmd_version, e1)
             ELSE ProbeInfo2(s1, in, cmd_version, e1)
        e3 == g.ev \o <<Cmd("GET_CHIP_INFO", 0, 0)>>
        e4 == e3 \o <<Cmd("FLASH_SPI_INFO", 0, 0)>>
        e5 == e4 \o <<Cmd("FLASH_REGION_INFO", 0, EC_IMAGE_RO)>>
        e6 == e5 \o <<Cmd("FLASH_REGION_INFO", 0, EC_IMAGE_RW)>>
    IN  IF ci < 0
        THEN Probed(s, 0, e0, NoGeo, FALSE)
        ELSE IF in.vrc < 0
        THEN Probed(s1, 0, e1, NoGeo, FALSE)
        ELSE IF g.rc = 0
        THEN g
        ELSE IF in.crc < 0
        THEN Probed(s1, 0, e3, NoGeo, FALSE)
        ELSE IF in.r1 < 0
        THEN Probed(s1, 0, e5, NoGeo, FALSE)
        ELSE IF in.r2 < 0
        THEN Probed(s1, 0, e6, NoGeo, FALSE)
        ELSE Probed(s1, 1, e6, g.geo, FALSE)

\* an EC that answers everything, with one bank of 64 blocks of 4 KiB
ProbeBase ==
    [q |-> "image", vrc |-> 0, mask |-> 2, ub |-> 0, irc |-> 0, irc2 |-> 0,
     mok |-> TRUE, trap |-> FALSE, dz |-> 0, junk |-> 0, override |-> 0,
     flash_size |-> 262144, erase_block_size |-> 4096, write_ideal_size |-> 2,
     banks |-> <<Bank(64, 12, 12)>>, crc |-> 0, sp |-> 0, r1 |-> 0, r2 |-> 0]

\* the version masks of FLASH_INFO: v0, v1, v2, and none
ProbeMasks == {<<1, 0>>, <<2, 0>>, <<4, 0>>, <<0, -1>>, <<0, 0>>}

\* the banks of a v2 reply: none, a bank of no block, banks of 4 KiB blocks
ProbeBanks ==
    {<<>>, <<Bank(0, 12, 12)>>, <<Bank(64, 12, 12)>>,
     <<Bank(32, 12, 12), Bank(1, 17, 12)>>}

\* every geometry with every version, for an EC that answers; and each of
\* the failures alone
ProbeInputs ==
    {[ProbeBase EXCEPT !.mask = m[1], !.ub = m[2], !.erase_block_size = b,
                       !.override = o, !.trap = tr, !.dz = dz, !.banks = bk] :
        m \in ProbeMasks, b \in {0, 4096}, o \in {0, 4096},
        tr \in BOOLEAN, dz \in {0, 1}, bk \in ProbeBanks}
    \cup {[ProbeBase EXCEPT !.q = q] : q \in GetVersionReplies}
    \cup {[ProbeBase EXCEPT !.mask = m[1], !.irc = x[1], !.irc2 = x[2],
                            !.mok = x[3], !.trap = tr] :
            m \in ProbeMasks,
            x \in {<<-EC_RES_ERROR, 0, TRUE>>, <<0, -EC_RES_ERROR, TRUE>>,
                   <<0, 0, FALSE>>},
            tr \in BOOLEAN}
    \cup {[ProbeBase EXCEPT !.vrc = x[1], !.crc = x[2], !.sp = x[3],
                            !.r1 = x[4], !.r2 = x[5]] :
            x \in {<<-EC_RES_ERROR, 0, 0, 0, 0>>, <<0, -EC_RES_ERROR, 0, 0, 0>>,
                   <<0, 0, -EC_RES_ERROR, 0, 0>>, <<0, 0, 0, -EC_RES_ERROR, 0>>,
                   <<0, 0, 0, 0, -EC_RES_ERROR>>}}

(***************************************************************************)
(* Write.                                                                  *)
(***************************************************************************)

\* real_write_size (cros_ec.c:691-692)
real_write_size(max_data_write) ==
    Min(U32(max_data_write - WRITE_HEADER_SIZE), ideal_write_size)

\* the status of the k-th FLASH_WRITE (k = 0, 1, ...): in.bad for chunk
\* in.failAt, success before it
ChunkRc(in, k) == IF k = in.failAt THEN in.bad ELSE 0

\* the status of the k-th feature query of the call: the first in.ffail fail
ChunkFeatureRc(in, k) == IF k < in.ffail THEN -EC_RES_ERROR ELSE 0

\* a copy that takes every chunk from the start of the buffer
SliceFromStart(buf, i, n) == [x \in 1..n |-> buf[x]]

\* memcpy(packet + sizeof(p), &buf[i], written) (cros_ec.c:712)
Slice(buf, i, n) == [x \in 1..n |-> buf[i + x]]

\* a loop that, when the EC denies a chunk, still sends the chunks after it
RECURSIVE WriteLoopGoesOn(_, _, _, _, _, _, _, _, _)
WriteLoopGoesOn(s, buf, addr, i, k, rc, chunk, in, ev) ==
    IF i >= Len(buf)
    THEN Ret(s, rc, ev) @@ [k |-> k]
    ELSE LET written == Min(Len(buf) - i, chunk)
             offset == U32(addr + i)
             f == ec_check_features(s, "EXEC_IN_RAM", ChunkFeatureRc(in, k))
             sent == ev \o f.ev
                        \o <<Ev("FLASH_WRITE", 0, 0, offset, written,
                                Slice(buf, i, written))>>
             crc == ChunkRc(in, k)
             start == i + written
             cnt == (Len(buf) - start + chunk - 1) \div chunk
             rest == [x \in 1..cnt |->
                        LET o == start + (x - 1) * chunk
                            sz == Min(Len(buf) - o, chunk)
                        IN  Ev("FLASH_WRITE", 0, 0, U32(addr + o), sz,
                               Slice(buf, o, sz))]
         IN  IF f.rc <= 0 /\ in_current_image(f.s.cur, offset, written) = 1
             THEN Denied(f.s, addr, Len(buf), ev \o f.ev) @@ [k |-> k]
             ELSE IF crc = -EC_RES_ACCESS_DENIED
             THEN Denied(f.s, addr, Len(buf), sent \o rest) @@ [k |-> k]
             ELSE IF crc < 0
             THEN Ret(f.s, crc, sent) @@ [k |-> k]
             ELSE WriteLoopGoesOn(f.s, buf, addr, i + written, k + 1,
                                  EC_RES_SUCCESS, chunk, in, sent)

\* a loop that, on a denial, marks old only the copies that the denied chunk
\* touches
RECURSIVE WriteLoopDeniesChunk(_, _, _, _, _, _, _, _, _)
WriteLoopDeniesChunk(s, buf, addr, i, k, rc, chunk, in, ev) ==
    IF i >= Len(buf)
    THEN Ret(s, rc, ev) @@ [k |-> k]
    ELSE LET written == Min(Len(buf) - i, chunk)
             offset == U32(addr + i)
             f == ec_check_features(s, "EXEC_IN_RAM", ChunkFeatureRc(in, k))
             sent == ev \o f.ev
                        \o <<Ev("FLASH_WRITE", 0, 0, offset, written,
                                Slice(buf, i, written))>>
             crc == ChunkRc(in, k)
         IN  IF f.rc <= 0 /\ in_current_image(f.s.cur, offset, written) = 1
             THEN Denied(f.s, offset, written, ev \o f.ev) @@ [k |-> k]
             ELSE IF crc = -EC_RES_ACCESS_DENIED
             THEN Denied(f.s, offset, written, sent) @@ [k |-> k]
             ELSE IF crc < 0
             THEN Ret(f.s, crc, sent) @@ [k |-> k]
             ELSE WriteLoopDeniesChunk(f.s, buf, addr, i + written, k + 1,
                                       EC_RES_SUCCESS, chunk, in, sent)

\* the loop of cros_ec_write (cros_ec.c:699-725); k counts the chunks, and
\* the result tells at which chunk the loop was left
RECURSIVE WriteLoop(_, _, _, _, _, _, _, _, _)
WriteLoop(s, buf, addr, i, k, rc, chunk, in, ev) ==
    IF i >= Len(buf)
    THEN Ret(s, rc, ev) @@ [k |-> k]
    ELSE LET written == Min(Len(buf) - i, chunk)
             offset == U32(addr + i)
             f == ec_check_features(s, "EXEC_IN_RAM", ChunkFeatureRc(in, k))
             sent == ev \o f.ev
                        \o <<Ev("FLASH_WRITE", 0, 0, offset, written,
                                Slice(buf, i, written))>>
             crc == ChunkRc(in, k)
         IN  IF f.rc <= 0 /\ in_current_image(f.s.cur, offset, written) = 1
             THEN Denied(f.s, addr, Len(buf), ev \o f.ev) @@ [k |-> k]
             ELSE IF crc = -EC_RES_ACCESS_DENIED
             THEN Denied(f.s, addr, Len(buf), sent) @@ [k |-> k]
             ELSE IF crc < 0
             THEN Ret(f.s, crc, sent) @@ [k |-> k]
             ELSE WriteLoop(f.s, buf, addr, i + written, k + 1, EC_RES_SUCCESS,
                            chunk, in, sent)

\* cros_ec_write (cros_ec.c:677-729); in.oom: malloc of the packet fails
cros_ec_write(s, buf, addr, max_data_write, in) ==
    IF in.oom
    THEN Ret(s, -1, <<>>) @@ [k |-> 0]
    ELSE WriteLoop(s, buf, addr, 0, 0, 0, real_write_size(max_data_write), in, <<>>)

\* the buffers of the model: the first n bytes of a pattern of distinct bytes
Pattern(n) == [x \in 1..n |-> 160 + x]
Buffers(longest) == {Pattern(n) : n \in 0..longest}

\* where the caller writes: at the start of RO, just below the RO/RW
\* border, and at the start of RW
WriteAddrs == {0, 131071, 131072}

\* flash->mst->opaque.max_data_write as the transports set it
MaxDataWrites == {9, 64}

WriteInputs(s, buf) ==
    LET chunks == 0..Len(buf)
    IN  {[oom |-> TRUE, failAt |-> -1, bad |-> 0, ffail |-> 0]}
        \cup {[oom |-> FALSE, failAt |-> -1, bad |-> 0, ffail |-> ff] :
                ff \in IF s.cache THEN {0} ELSE chunks}
        \cup {[oom |-> FALSE, failAt |-> k, bad |-> b, ffail |-> ff] :
                k \in 0..(Len(buf) - 1),
                b \in {-EC_RES_ACCESS_DENIED} \cup TransportErrors,
                ff \in IF s.cache THEN {0} ELSE chunks}

(***************************************************************************)
(* Read.                                                                   *)
(***************************************************************************)

\* cros_ec_read (cros_ec.c:521-549).  The bytes read are the EC's and are
\* not part of the session; the model keeps the commands and the result.
RECURSIVE ReadLoop(_, _, _, _, _, _, _, _)
ReadLoop(s, blockaddr, readcnt, maxlen, offset, k, rc, in) ==
    IF offset >= readcnt
    THEN Ret(s, rc, <<>>)
    ELSE LET count == Min(maxlen, readcnt - offset)
             c == Ev("FLASH_READ", 0, 0, U32(blockaddr + offset), count, <<>>)
             crc == IF k = in.failAt THEN in.bad ELSE 0
             rest == ReadLoop(s, blockaddr, readcnt, maxlen, offset + count,
                              k + 1, EC_RES_SUCCESS, in)
         IN  IF crc < 0
             THEN Ret(s, crc, <<c>>)
             ELSE [rest EXCEPT !.ev = <<c>> \o rest.ev]

cros_ec_read(s, blockaddr, readcnt, maxlen, in) ==
    ReadLoop(s, blockaddr, readcnt, maxlen, 0, 0, 0, in)

ReadRanges == {<<0, 2>>, <<131071, 3>>}
MaxDataReads == {2}
ReadInputs ==
    {[failAt |-> k, bad |-> b] : k \in {-1, 0, 1}, b \in TransportErrors}

(***************************************************************************)
(* Write protection and the firmware map (cros_ec_prepare).                *)
(***************************************************************************)

\* cros_ec_wp_is_enabled (cros_ec.c:346-369).  wq is the EC's answer to
\* FLASH_PROTECT: a negative status, a reply that is too short, or a reply
\* with the flags of the latch.
WpReplies == {"error", "short", "reply"}

cros_ec_wp_is_enabled(s, wq) ==
    CASE wq = "error" -> -1
      [] wq = "short" -> -1
      [] OTHER -> IF s.wp THEN 1 ELSE 0

\* flashrom_wp_cfg_new + flashrom_wp_set_mode(HARDWARE) +
\* flashrom_wp_write_cfg: applying the configuration clears the EC's
\* software latch; ok = both calls returned FLASHROM_WP_OK
flashrom_wp_write_cfg(s, ok) == IF ok THEN [s EXCEPT !.wp = FALSE] ELSE s

\* register_shutdown(cros_ec_restore_wp, flash); rs is its return code
register_shutdown(s, rs) == IF rs = 0 THEN [s EXCEPT !.hooks = @ + 1] ELSE s

\* cros_ec_restore_wp (cros_ec.c:329-344).  rw: flashrom_wp_cfg_new failed,
\* flashrom_wp_write_cfg failed, or both returned FLASHROM_WP_OK
RestoreOutcomes == {"nocfg", "fail", "ok"}

cros_ec_restore_wp(s, rw) ==
    IF rw = "nocfg"
    THEN Ret(s, 1, <<>>)
    ELSE Ret(flashrom_wp_write_cfg(s, rw = "ok"), IF rw = "ok" THEN 0 ELSE 1,
             <<Cmd("flashrom_wp_write_cfg", 0, 0)>>)

\* programmer_shutdown: every registered function is called once, the last
\* registered first, and the table is left empty
RECURSIVE programmer_shutdown(_, _)
programmer_shutdown(s, rw) ==
    IF s.hooks = 0
    THEN Ret(s, 0, <<>>)
    ELSE LET f == cros_ec_restore_wp(s, rw)
             rest == programmer_shutdown([f.s EXCEPT !.hooks = @ - 1], rw)
         IN  Ret(rest.s, IF f.rc # 0 \/ rest.rc # 0 THEN 1 ELSE 0, f.ev \o rest.ev)

\* a write-protect step that registers the restore whenever the query
\* was answered
PrepareWpAlwaysRegisters(s, in) ==
    LET wp_status == cros_ec_wp_is_enabled(s, in.wq)
        q == <<Cmd("FLASH_PROTECT", 0, 0)>>
        off == flashrom_wp_write_cfg(s, in.wc)
    IN  IF wp_status < 0
        THEN Ret(s, 1, q)
        ELSE IF wp_status = 1 /\ in.wc
        THEN Ret(register_shutdown(off, in.rs), IF in.rs # 0 THEN 1 ELSE 0, q)
        ELSE Ret(register_shutdown(s, 0), 0, q)

\* a write-protect step that gives up when the latch cannot be cleared
PrepareWpFatal(s, in) ==
    LET wp_status == cros_ec_wp_is_enabled(s, in.wq)
        q == <<Cmd("FLASH_PROTECT", 0, 0)>>
        off == flashrom_wp_write_cfg(s, in.wc)
    IN  IF wp_status < 0
        THEN Ret(s, 1, q)
        ELSE IF wp_status = 1
        THEN IF in.wc
             THEN Ret(register_shutdown(off, in.rs), IF in.rs # 0 THEN 1 ELSE 0, q)
             ELSE Ret(s, 1, q)
        ELSE Ret(s, 0, q)

\* the write-protect step of cros_ec_prepare (cros_ec.c:403-429):
\* rc = 1 when prepare returns 1 here, 0 when it goes on
PrepareWp(s, in) ==
    LET wp_status == cros_ec_wp_is_enabled(s, in.wq)
        q == <<Cmd("FLASH_PROTECT", 0, 0)>>
        off == flashrom_wp_write_cfg(s, in.wc)
    IN  IF wp_status < 0
        THEN Ret(s, 1, q)
        ELSE IF wp_status = 1
        THEN IF in.wc
             THEN Ret(register_shutdown(off, in.rs), IF in.rs # 0 THEN 1 ELSE 0, q)
             ELSE Ret(s, 0, q)
        ELSE Ret(s, 0, q)

\* the FMAP of the image handed to prepare: no FMAP at all, the areas of
\* the EC's own layout, and an image laid out differently from the EC's
\* regions
Fmaps == {"none", "same", "moved"}

FmapArea(name, offset, size) == [name |-> name, offset |-> offset, size |-> size]

FmapAreas(f) ==
    CASE f = "same" ->
            <<FmapArea("EC_RO", 0, 131072), FmapArea("WP_RO", 0, 131072),
              FmapArea("EC_RW", 131072, 131072)>>
      [] f = "moved" ->
            <<FmapArea("EC_RO", 0, 65536), FmapArea("EC_RW", 65536, 131072)>>
      [] OTHER -> <<>>

\* sections[] (cros_ec.c:68-72)
sections == [i \in 0..2 |->
                CASE i = EC_IMAGE_RO -> "EC_RO"
                  [] i = EC_IMAGE_RW -> "EC_RW"
                  [] OTHER -> "UNKNOWN SECTION"]

\* the FMAP loop of cros_ec_prepare (cros_ec.c:431-447): a later area of
\* the same name overwrites an earlier one; a copy with no area is left as
\* it was
RECURSIVE ScanAreas(_, _, _)
ScanAreas(fw, areas, i) ==
    IF i > Len(areas)
    THEN fw
    ELSE LET fa == areas[i]
             hit == {j \in EC_IMAGE_RO..EC_IMAGE_RW : sections[j] = fa.name}
         IN  ScanAreas([j \in EC_IMAGE_RO..FWCOPY_LAST |->
                            IF j \in hit
                            THEN [offset |-> fa.offset, size |-> fa.size, flags |-> 1]
                            ELSE fw[j]],
                       areas, i + 1)

PrepareFmap(s, f) ==
    IF f = "none" THEN s ELSE [s EXCEPT !.fw = ScanAreas(s.fw, FmapAreas(f), 1)]

(***************************************************************************)
(* The caller-facing calls that jump.                                      *)
(***************************************************************************)

\* a call that did not reach cros_ec_jump_copy
Plain(r) == r @@ [j |-> NoJump]

\* cros_ec_prepare (cros_ec.c:377-458).  in.f1, in.f2: statuses of the two
\* feature queries, in.wq, in.wc, in.rs: see PrepareWp, in.fmap: the FMAP of
\* the image, in.j: see cros_ec_jump_copy.
cros_ec_prepare(s, in) ==
    LET a == ec_check_features(s, "RWSIG", in.f1)
        s1 == IF a.rc > 0 THEN [a.s EXCEPT !.rwsig = TRUE] ELSE a.s
        w == PrepareWp(s1, in)
        s2 == PrepareFmap(w.s, in.fmap)
        b == ec_check_features(s2, "EXEC_IN_RAM", in.f2)
        jmp == cros_ec_jump_copy(b.s, EC_IMAGE_RO, in.j)
        ev == a.ev \o w.ev \o b.ev
    IN  IF ~detected
        THEN Plain(Ret(s, 0, <<>>))
        ELSE IF w.rc # 0
        THEN Plain(Ret(w.s, 1, a.ev \o w.ev))
        ELSE IF b.rc > 0
        THEN Plain(Ret(b.s, 0, ev))
        ELSE [jmp EXCEPT !.ev = ev \o jmp.ev]

WpInputs(s) ==
    {[wq |-> "error", wc |-> FALSE, rs |-> 0],
     [wq |-> "short", wc |-> FALSE, rs |-> 0],
     [wq |-> "reply", wc |-> FALSE, rs |-> 0]}
    \cup (IF s.wp
          THEN {[wq |-> "reply", wc |-> TRUE, rs |-> x] : x \in {0, 1}}
          ELSE {})

PrepareInputs(s) ==
    UNION {LET a == ec_check_features(s, "RWSIG", f1)
               rwsig == s.rwsig \/ a.rc > 0
           IN  {[f1 |-> f1, wq |-> w.wq, wc |-> w.wc, rs |-> w.rs, fmap |-> fm,
                 f2 |-> f2, j |-> j] :
                    w \in WpInputs(s), fm \in Fmaps, f2 \in FeatureRc(a.s),
                    j \in JumpInputs([s EXCEPT !.rwsig = rwsig])}
           : f1 \in FeatureRc(s)}

\* a cros_ec_need_2nd_pass that clears the flag once its jump succeeded
need_2nd_pass_clearing(s, in) ==
    LET f == ec_check_features(s, "EXEC_IN_RAM", in.f)
        jmp == cros_ec_jump_copy(f.s, EC_IMAGE_UNKNOWN, in.j)
    IN  IF ~detected
        THEN Plain(Ret(s, 0, <<>>))
        ELSE IF ~s.need
        THEN Plain(Ret(s, 0, <<>>))
        ELSE IF f.rc > 0
        THEN Plain(Ret(f.s, 1, f.ev))
        ELSE [jmp EXCEPT !.rc = IF jmp.rc # 0 THEN -1 ELSE 1,
                         !.ev = f.ev \o jmp.ev,
                         !.s = IF jmp.rc # 0 THEN @ ELSE [@ EXCEPT !.need = FALSE]]

\* a cros_ec_need_2nd_pass that asks for no pass on an EC that executes from RAM
need_2nd_pass_never_in_ram(s, in) ==
    LET f == ec_check_features(s, "EXEC_IN_RAM", in.f)
        jmp == cros_ec_jump_copy(f.s, EC_IMAGE_UNKNOWN, in.j)
    IN  IF ~detected
        THEN Plain(Ret(s, 0, <<>>))
        ELSE IF ~s.need
        THEN Plain(Ret(s, 0, <<>>))
        ELSE IF f.rc > 0
        THEN Plain(Ret(f.s, 0, f.ev))
        ELSE [jmp EXCEPT !.rc = IF jmp.rc # 0 THEN -1 ELSE 1,
                         !.ev = f.ev \o jmp.ev]

\* a cros_ec_need_2nd_pass that asks for a pass whatever its jump returned
need_2nd_pass_whatever(s, in) ==
    LET f == ec_check_features(s, "EXEC_IN_RAM", in.f)
        jmp == cros_ec_jump_copy(f.s, EC_IMAGE_UNKNOWN, in.j)
    IN  IF ~detected
        THEN Plain(Ret(s, 0, <<>>))
        ELSE IF ~s.need
        THEN Plain(Ret(s, 0, <<>>))
        ELSE IF f.rc > 0
        THEN Plain(Ret(f.s, 1, f.ev))
        ELSE [jmp EXCEPT !.rc = 1, !.ev = f.ev \o jmp.ev]

\* cros_ec_need_2nd_pass (cros_ec.c:467-489)
cros_ec_need_2nd_pass(s, in) ==
    LET f == ec_check_features(s, "EXEC_IN_RAM", in.f)
        jmp == cros_ec_jump_copy(f.s, EC_IMAGE_UNKNOWN, in.j)
    IN  IF ~detected
        THEN Plain(Ret(s, 0, <<>>))
        ELSE IF ~s.need
        THEN Plain(Ret(s, 0, <<>>))
        ELSE IF f.rc > 0
        THEN Plain(Ret(f.s, 1, f.ev))
        ELSE [jmp EXCEPT !.rc = IF jmp.rc # 0 THEN -1 ELSE 1,
                         !.ev = f.ev \o jmp.ev]

Need2ndPassInputs(s) == [f : FeatureRc(s), j : JumpInputs(s)]

\* cros_ec_cold_reboot (cros_ec.c:223-232) as cros_ec_finish uses it
cros_ec_cold_reboot(s, in) ==
    Ret(IF in.rb < 0
        THEN s
        ELSE [s EXCEPT !.image = ImageAfterReboot(EC_REBOOT_COLD, FALSE, in.sig)],
        in.rb, <<Cmd("REBOOT_EC", 0, EC_REBOOT_COLD)>>)

\* a cros_ec_finish that reports success whatever the reboot returned
finish_always_ok(s, in) ==
    LET r == cros_ec_cold_reboot(s, in)
    IN  IF ~detected
        THEN Ret(s, 0, <<>>)
        ELSE IF s.rwsig
        THEN Ret(r.s, 0, r.ev \o <<Sleep(EC_RWSIG_JUMP_TO_RW_DELAY)>>)
        ELSE Ret(s, 0, <<>>)

\* cros_ec_finish (cros_ec.c:500-518)
cros_ec_finish(s, in) ==
    LET r == cros_ec_cold_reboot(s, in)
    IN  IF ~detected
        THEN Ret(s, 0, <<>>)
        ELSE IF s.rwsig
        THEN Ret(r.s, r.rc, r.ev \o <<Sleep(EC_RWSIG_JUMP_TO_RW_DELAY)>>)
        ELSE Ret(s, 0, <<>>)

FinishInputs(s) ==
    IF s.rwsig THEN [rb : ChannelRc, sig : BOOLEAN] ELSE {[rb |-> 0, sig |-> TRUE]}

(***************************************************************************)
(* The state machine.                                                      *)
(***************************************************************************)

\* the record of a call: its arguments, its return code, its trace, what its
\* jump did and, for a write, the chunk at which its loop was left
Call(op, addr, buf, chunk, r) ==
    [op |-> op, addr |-> addr, len |-> 0, buf |-> buf, chunk |-> chunk,
     rc |-> r.rc, ev |-> r.ev, j |-> r.j,
     k |-> IF "k" \in DOMAIN r THEN r.k ELSE 0]

\* no call has returned since the caller took the last result
Idle == Call("idle", 0, <<>>, 0, Plain(Ret(0, 0, <<>>)))

\* what is remembered of a call once its result is taken: whether it was a
\* jump to the newest copy (cros_ec_jump_copy(EC_IMAGE_UNKNOWN)), whether
\* that jump succeeded, and the copy it resolved to
Summary(c) ==
    IF c.j.called /\ c.j.target = EC_IMAGE_UNKNOWN
    THEN [newest |-> TRUE, ok |-> c.j.rc = 0, resolved |-> c.j.resolved]
    ELSE [newest |-> FALSE, ok |-> FALSE, resolved |-> 0]

\* after a successful probe (cros_ec_probe_size): the session holds the copy
\* the EC reported, nothing else has run
Init ==
    /\ dev_image \in Images
    /\ dev_features \in SUBSET Features
    /\ dev_wp \in BOOLEAN
    /\ enum_signed \in BOOLEAN
    /\ detected \in BOOLEAN
    /\ current_image = dev_image
    /\ need_2nd_pass = FALSE
    /\ rwsig_enabled = FALSE
    /\ fwcopy = [i \in EC_IMAGE_RO..FWCOPY_LAST |-> ZeroArea]
    /\ features_cached = FALSE
    /\ shutdown_fns = 0
    /\ last = Idle
    /\ prior = Summary(Idle)
    /\ denied_since_jump = FALSE
    /\ wp_disabled = FALSE

\* the history of denials: a denied erase or write sets it, a successful
\* jump clears it
Since(r) ==
    IF r.rc = SPI_ACCESS_DENIED /\ ~r.j.called
    THEN TRUE
    ELSE IF r.j.called /\ r.j.rc = 0 THEN FALSE ELSE denied_since_jump

\* a call runs to its return: the session and the EC change as the call
\* left them, and the call is on record until the caller takes the result
Returns(r, c) ==
    /\ Commit(r.s)
    /\ last' = c
    /\ denied_since_jump' = Since(r)
    /\ wp_disabled' = (wp_disabled \/ (dev_wp /\ ~r.s.wp))
    /\ UNCHANGED prior

Prepare ==
    /\ last = Idle
    /\ \E in \in PrepareInputs(State) :
        LET r == cros_ec_prepare(State, in)
        IN  Returns(r, Call("prepare", 0, <<>>, 0, r)
                            @@ [in |-> [wq |-> in.wq, wc |-> in.wc, rs |-> in.rs,
                                        fmap |-> in.fmap]])

Need2ndPass ==
    /\ last = Idle
    /\ \E in \in Need2ndPassInputs(State) :
        LET r == cros_ec_need_2nd_pass(State, in)
        IN  Returns(r, Call("need_2nd_pass", 0, <<>>, 0, r))

Finish ==
    /\ last = Idle
    /\ \E in \in FinishInputs(State) :
        LET r == Plain(cros_ec_finish(State, in))
        IN  Returns(r, Call("finish", 0, <<>>, 0, r) @@ [in |-> in])

\* erase, write and read reach the EC through the chip that
\* cros_ec_probe_size set up, so only on a detected EC
BlockErase ==
    /\ last = Idle
    /\ detected
    /\ \E rg \in EraseRanges : \E in \in EraseInputs(State, rg[2]) :
        LET r == Plain(cros_ec_block_erase(State, rg[1], rg[2], in))
        IN  Returns(r, [Call("erase", rg[1], <<>>, 0, r) EXCEPT !.len = rg[2]])

\* the assert of cros_ec_write (cros_ec.c:693) is the guard on the chunk size
WriteCall(longest) ==
    /\ last = Idle
    /\ detected
    /\ \E buf \in Buffers(longest), addr \in WriteAddrs, mdw \in MaxDataWrites :
        /\ real_write_size(mdw) > 0
        /\ \E in \in WriteInputs(State, buf) :
            LET r == Plain(cros_ec_write(State, buf, addr, mdw, in))
            IN  Returns(r, [Call("write", addr, buf, real_write_size(mdw), r)
                                EXCEPT !.len = Len(buf)])

Write == WriteCall(MaxWriteLen)

Read ==
    /\ last = Idle
    /\ detected
    /\ \E rg \in ReadRanges, maxlen \in MaxDataReads, in \in ReadInputs :
        LET r == Plain(cros_ec_read(State, rg[1], rg[2], maxlen, in))
        IN  Returns(r, [Call("read", rg[1], <<>>, 0, r) EXCEPT !.len = rg[2]])

\* the caller takes the result of the call and goes on
TakeResult ==
    /\ last # Idle
    /\ last.op # "exit"
    /\ ~("crashed" \in DOMAIN last /\ last.crashed)
    /\ last' = Idle
    /\ prior' = Summary(last)
    /\ UNCHANGED <<dev_image, dev_features, dev_wp, enum_signed, detected,
                   current_image, need_2nd_pass, rwsig_enabled, fwcopy,
                   features_cached, shutdown_fns, denied_since_jump,
                   wp_disabled>>

\* the process ends between two calls, after the last one or on an error
\* path: the registered shutdown functions run, and nothing runs after them
Exit ==
    /\ last = Idle
    /\ \E rw \in RestoreOutcomes :
        LET r == Plain(programmer_shutdown(State, rw))
        IN  Returns(r, [Call("exit", 0, <<>>, 0, r) EXCEPT !.k = shutdown_fns])

Next ==
    \/ Prepare
    \/ Need2ndPass
    \/ Finish
    \/ Exit
    \/ BlockErase
    \/ Write
    \/ Read
    \/ TakeResult

Spec == Init /\ [][Next]_vars

\* write alone, with longer buffers
LongWrite == WriteCall(MaxLongWriteLen)

NextWrite ==
    \/ LongWrite
    \/ TakeResult

SpecWrite == Init /\ [][NextWrite]_vars

\* erase alone, with more blocks and all the answers of the EC; the record
\* of the call keeps the answers the EC was going to give
LongErase ==
    /\ last = Idle
    /\ detected
    /\ \E rg \in MoreEraseRanges : \E in \in MoreEraseInputs(State, rg[2]) :
        LET r == Plain(cros_ec_block_erase(State, rg[1], rg[2], in))
        IN  Returns(r, [Call("erase", rg[1], <<>>, 0, r) EXCEPT !.len = rg[2]]
                            @@ [in |-> in])

NextErase ==
    \/ LongErase
    \/ TakeResult

SpecErase == Init /\ [][NextErase]_vars

\* the block of the 2nd pass: 4 KiB at the start of the RW region
TwoPassBlock == <<131072, 4096>>

\* the erase of that block, on record with the answers of the EC
EraseTwoPassBlock ==
    /\ last = Idle
    /\ detected
    /\ \E in \in EraseInputs(State, TwoPassBlock[2]) :
        LET r == Plain(cros_ec_block_erase(State, TwoPassBlock[1], TwoPassBlock[2], in))
        IN  Returns(r, [Call("erase", TwoPassBlock[1], <<>>, 0, r)
                            EXCEPT !.len = TwoPassBlock[2]] @@ [in |-> in])

\* erase and write on record with the answers of the EC, after a prepare
\* that filled fwcopy
AnsweredErase ==
    /\ last = Idle
    /\ detected
    /\ \E rg \in EraseRanges : \E in \in EraseInputs(State, rg[2]) :
        LET r == Plain(cros_ec_block_erase(State, rg[1], rg[2], in))
        IN  Returns(r, [Call("erase", rg[1], <<>>, 0, r) EXCEPT !.len = rg[2]]
                            @@ [in |-> in])

AnsweredWrite ==
    /\ last = Idle
    /\ detected
    /\ \E buf \in Buffers(MaxWriteLen), addr \in WriteAddrs, mdw \in MaxDataWrites :
        /\ real_write_size(mdw) > 0
        /\ \E in \in WriteInputs(State, buf) :
            LET r == Plain(cros_ec_write(State, buf, addr, mdw, in))
            IN  Returns(r, [Call("write", addr, buf, real_write_size(mdw), r)
                                EXCEPT !.len = Len(buf)] @@ [in |-> in])

NextDenied ==
    \/ Prepare
    \/ AnsweredErase
    \/ AnsweredWrite
    \/ TakeResult

SpecDenied == Init /\ [][NextDenied]_vars

\* write over transports of every size, smaller than the header of
\* FLASH_WRITE included.  The assert of cros_ec.c:693 ends the process when
\* the chunk size is 0.
NarrowDataWrites == {3, 7, 8, 9, 10, 64}

NarrowWrite ==
    /\ last = Idle
    /\ detected
    /\ \E buf \in Buffers(MaxWriteLen), addr \in WriteAddrs, mdw \in NarrowDataWrites :
        \E in \in WriteInputs(State, buf) :
            LET asserted == real_write_size(mdw) > 0
                r == IF asserted
                     THEN Plain(cros_ec_write(State, buf, addr, mdw, in))
                     ELSE Plain(Ret(State, 0, <<>>) @@ [k |-> 0])
            IN  Returns(r, [Call("write", addr, buf, real_write_size(mdw), r)
                                EXCEPT !.len = Len(buf)]
                            @@ [in |-> in, mdw |-> mdw, crashed |-> ~asserted])

NextChunk ==
    \/ NarrowWrite
    \/ TakeResult

SpecChunk == Init /\ [][NextChunk]_vars

\* the test of in_current_image alone, on ranges and regions at both ends
\* of the address space and of no byte
GuardValues == {0, 1, 2, 3, WordMod - 2, WordMod - 1}

Guard ==
    /\ last = Idle
    /\ \E addr \in GuardValues, len \in GuardValues,
          off \in GuardValues, size \in GuardValues :
        LET r == Plain(Ret(State, in_region(addr, len, off, size), <<>>))
        IN  Returns(r, [Call("in_current_image", addr, <<>>, 0, r)
                            EXCEPT !.len = len] @@ [off |-> off, size |-> size])

NextGuard ==
    \/ Guard
    \/ TakeResult

SpecGuard == Init /\ [][NextGuard]_vars

\* the probe at attach time; the record of the call keeps the answers of
\* the EC, the geometry found and whether the process survived
Probe ==
    /\ last = Idle
    /\ \E in \in ProbeInputs :
        LET r == Plain(cros_ec_probe_size(State, in))
        IN  Returns(r, Call("probe", 0, <<>>, 0, r)
                            @@ [in |-> in, geo |-> r.geo, crashed |-> r.crashed])

NextProbe ==
    \/ Probe
    \/ TakeResult

SpecProbe == Init /\ [][NextProbe]_vars

\* an update in two passes: prepare, the erase of the block, and the jump
\* of cros_ec_need_2nd_pass
NextTwoPass ==
    \/ Prepare
    \/ EraseTwoPassBlock
    \/ Need2ndPass
    \/ TakeResult

SpecTwoPass == Init /\ [][NextTwoPass]_vars

(***************************************************************************)
(* What the calls are observed by.                                         *)
(***************************************************************************)

\* the EC reports no EC_FEATURE_EXEC_IN_RAM: ec_check_features() <= 0
LacksExec == "EXEC_IN_RAM" \notin dev_features

\* the ranges [addr, addr + len) and [off, off + size) share a byte
Overlap(addr, len, off, size) ==
    len > 0 /\ size > 0 /\ addr < off + size /\ off < addr + len

\* the range shares a byte with region[current_image] of the session
InCurrent(addr, len) ==
    Overlap(addr, len, region[current_image].offset, region[current_image].size)

\* where in the trace of call c the command name was sent
Sent(c, name) == {i \in DOMAIN c.ev : c.ev[i].cmd = name}

\* the FLASH_WRITE commands of call c, in the order sent
Writes(c) ==
    LET IsWrite(e) == e.cmd = "FLASH_WRITE"
    IN
             SelectSeq(c.ev, IsWrite)

\* into how many chunks write call c cuts its buffer, and the k-th of them
\* (k = 0, 1, ...) as it should be on the channel
ChunkCount(c) == (c.len + c.chunk - 1) \div c.chunk

ExpectedChunk(c, k) ==
    LET first == k * c.chunk
        size == Min(c.chunk, c.len - first)
    IN  Ev("FLASH_WRITE", 0, 0, c.addr + first, size,
           SubSeq(c.buf, first + 1, first + size))

\* the chunks of write call c that share a byte with region[current_image]
Hits(c) ==
    {k \in 0..(ChunkCount(c) - 1) :
        InCurrent(c.addr + k * c.chunk, Min(c.chunk, c.len - k * c.chunk))}

RECURSIVE Payload(_, _)
Payload(w, i) == IF i > Len(w) THEN <<>> ELSE w[i].data \o Payload(w, i + 1)

\* call c went into cros_ec_jump_copy(EC_IMAGE_UNKNOWN)
NewestJump(c) == c.j.called /\ c.j.target = EC_IMAGE_UNKNOWN

\* call c is an erase or a write that returned SPI_ACCESS_DENIED
DeniedCall(c) == c.op \in {"erase", "write"} /\ c.rc = SPI_ACCESS_DENIED

(***************************************************************************)
(* C1.  Erase and write on an EC without EXEC_IN_RAM, for a range that     *)
(* overlaps the region of the session's current image.                     *)
(***************************************************************************)

GuardedCall ==
    /\ last.op \in {"erase", "write"}
    /\ LacksExec
    /\ InCurrent(last.addr, last.len)

DeniedWithEffects ==
    LET \* every copy whose area in fwcopy shares a byte with the range is marked old
        StaleOver(addr, len) ==
            \A i \in EC_IMAGE_RO..FWCOPY_LAST :
                Overlap(addr, len, fwcopy[i].offset, fwcopy[i].size) => fwcopy[i].flags = 0
    IN
    /\ last.rc = SPI_ACCESS_DENIED
    /\ need_2nd_pass
    /\ StaleOver(last.addr, last.len)

\* C1 as stated: every such call returns SPI_ACCESS_DENIED, the copies under
\* the range are marked old and need_2nd_pass is set; in particular the call
\* returns no transport error.
C1_AlwaysDenied == GuardedCall => DeniedWithEffects

\* C1: an erase of such a range returns SPI_ACCESS_DENIED with the copies
\* under the range marked old and need_2nd_pass set.  A write of such a
\* range never returns success; it returns SPI_ACCESS_DENIED with the same
\* effects unless it stopped before its first overlapping chunk: the packet
\* could not be allocated (-1, nothing sent), or an earlier chunk, outside
\* the current image, failed in transport.
C1_DeniedOrStoppedEarlier ==
    GuardedCall =>
        \/ DeniedWithEffects
        \/ /\ last.op = "write"
           /\ last.rc = -1
           /\ last.ev = <<>>
        \/ /\ last.op = "write"
           /\ last.rc \in TransportErrors
           /\ \A h \in Hits(last) : last.k < h

\* a write stopped by the guard at its second chunk, the first one sent,
\* with the current image's copy known from the FMAP
C1_Witness ==
    /\ GuardedCall
    /\ last.op = "write"
    /\ last.rc = SPI_ACCESS_DENIED
    /\ last.k = 1
    /\ Len(Writes(last)) = 1
    /\ fwcopy[current_image].size > 0

(***************************************************************************)
(* C2.  Nothing is erased or written inside the current image.             *)
(***************************************************************************)

\* C2: on an EC without EXEC_IN_RAM no FLASH_ERASE and no FLASH_WRITE
\* command of any call is sent for a range that shares a byte with
\* region[current_image].
C2_NothingSentIntoCurrentImage ==
    LacksExec =>
        \A i \in Sent(last, "FLASH_ERASE") \cup Sent(last, "FLASH_WRITE") :
            ~InCurrent(last.ev[i].offset, last.ev[i].size)

\* an erase outside the current image went out and succeeded
C2_Witness ==
    /\ LacksExec
    /\ last.op = "erase"
    /\ last.rc = 0
    /\ Sent(last, "FLASH_ERASE") # {}
    /\ ~InCurrent(last.addr, last.len)

(***************************************************************************)
(* C3.  need_2nd_pass and the history of denials.                          *)
(***************************************************************************)

\* C3 as stated: need_2nd_pass is set exactly when an erase or a write was
\* denied since the last successful jump.
C3_IffDeniedSinceJump == need_2nd_pass <=> denied_since_jump

\* C3: need_2nd_pass is set by every denied erase or write and by nothing
\* else, and once set it stays set: no call clears it.
C3_SetByDenialNeverCleared ==
    [][need_2nd_pass' = (need_2nd_pass \/ DeniedCall(last'))]_vars

\* cros_ec_need_2nd_pass jumped with success and the flag is still set
C3_Witness ==
    /\ last.op = "need_2nd_pass"
    /\ last.j.called
    /\ last.j.rc = 0
    /\ last.rc = 1
    /\ need_2nd_pass
    /\ ~denied_since_jump

(***************************************************************************)
(* C4.  cros_ec_jump_copy(EC_IMAGE_UNKNOWN) picks RO, then RW, or fails.   *)
(***************************************************************************)

\* C4: a jump to the newest copy that learnt the running copy goes for RO if
\* fwcopy[RO] is new, else for RW if fwcopy[RW] is new, and otherwise fails
\* without a REBOOT_EC, the EC staying on the copy it ran; a jump that could
\* not learn the running copy fails the same way.
C4_NewestIsRoThenRw ==
    [][LET \* the jump of call c went for copy t with reboot command cmd
           WentFor(c, t, cmd) ==
               /\ c.j.resolved = t
               /\ \A i \in Sent(c, "REBOOT_EC") : c.ev[i].arg = cmd
               /\ c.j.rc = 0 => current_image' = t
           \* the jump of call c failed and left the EC and the session alone
           LeftAlone(c) ==
               /\ c.j.rc # 0
               /\ Sent(c, "REBOOT_EC") = {}
               /\ dev_image' = dev_image
               /\ current_image' = current_image
       IN
       NewestJump(last') =>
        IF QueryFailed(last'.j.queried)
        THEN LeftAlone(last')
        ELSE IF fwcopy[EC_IMAGE_RO].flags # 0
        THEN WentFor(last', EC_IMAGE_RO, EC_REBOOT_JUMP_RO)
        ELSE IF fwcopy[EC_IMAGE_RW].flags # 0
        THEN WentFor(last', EC_IMAGE_RW, EC_REBOOT_JUMP_RW)
        ELSE LeftAlone(last')]_vars

\* RO is old, RW is new, and the jump rebooted the EC into RW
C4_Witness ==
    /\ NewestJump(last)
    /\ fwcopy[EC_IMAGE_RO].flags = 0
    /\ fwcopy[EC_IMAGE_RW].flags # 0
    /\ last.j.resolved = EC_IMAGE_RW
    /\ last.j.rebooted
    /\ dev_image = EC_IMAGE_RW

(***************************************************************************)
(* C5.  Two jumps to the newest copy in a row.                             *)
(***************************************************************************)

\* the call on record and the call before it both jumped to the newest copy
TwoNewestJumps == prior.newest /\ NewestJump(last)

\* the jump of call c sent nothing after its GET_VERSION
NothingAfterQuery(c) ==
    /\ Sent(c, "REBOOT_EC") = {}
    /\ Sent(c, "usleep") = {}
    /\ Sent(c, "RWSIG_ACTION") = {}

\* C5 as stated: both jumps succeed, the second sends no reboot, delay or
\* abort, and current_image is what the first left.
C5_BothSucceed ==
    TwoNewestJumps =>
        /\ prior.ok
        /\ last.j.rc = 0
        /\ NothingAfterQuery(last)
        /\ current_image = prior.resolved

\* C5: when the first jump succeeded and the EC answers the second one's
\* GET_VERSION with a copy, the second succeeds too, sends no reboot, delay
\* or abort, and current_image is what the first left.
C5_SecondIsNoOp ==
    (TwoNewestJumps /\ prior.ok /\ last.j.queried \in Images) =>
        /\ last.j.rc = 0
        /\ NothingAfterQuery(last)
        /\ last.j.resolved = prior.resolved
        /\ current_image = prior.resolved

\* the second of two jumps found the EC in the copy the first went to
C5_Witness ==
    /\ TwoNewestJumps
    /\ prior.ok
    /\ last.j.queried = prior.resolved
    /\ last.j.rc = 0

(***************************************************************************)
(* C6.  current_image after cros_ec_jump_copy.                             *)
(***************************************************************************)

\* C6 as stated: a jump that returns 0 leaves current_image at the target
\* it went for, on every path; a jump that fails leaves current_image as it
\* was.
C6_CurrentImageFollowsJump ==
    [][last'.j.called =>
        IF last'.j.rc = 0
        THEN current_image' = last'.j.resolved
        ELSE current_image' = current_image]_vars

\* the jump returned 0 at once, the EC reporting the target, and
\* current_image is another copy
C6_Witness ==
    /\ last.j.called
    /\ last.j.rc = 0
    /\ last.j.queried = last.j.target
    /\ current_image # last.j.target

(***************************************************************************)
(* C7.  cros_ec_need_2nd_pass on an EC with EXEC_IN_RAM.                   *)
(***************************************************************************)

InRamPass == last.op = "need_2nd_pass" /\ ~LacksExec

\* C7 as stated: on an EC with EXEC_IN_RAM the call never asks for a second
\* pass.
C7_NeverForInRam == InRamPass => last.rc <= 0

\* C7: on an EC with EXEC_IN_RAM the call returns 0 exactly when
\* need_2nd_pass is clear.  With the flag set it returns 1 without a jump
\* once the EC's features are known; while the feature query fails it jumps
\* as for any other EC.
C7_InRamFollowsFlag ==
    InRamPass =>
        /\ (last.rc = 0) <=> ~(detected /\ need_2nd_pass)
        /\ (detected /\ need_2nd_pass) =>
                IF features_cached
                THEN last.rc = 1 /\ ~last.j.called
                ELSE last.j.called

\* a second pass asked for on an EC with EXEC_IN_RAM, without a jump
C7_Witness ==
    /\ InRamPass
    /\ need_2nd_pass
    /\ last.rc = 1
    /\ ~last.j.called

(***************************************************************************)
(* C8.  The return codes of cros_ec_need_2nd_pass.                         *)
(***************************************************************************)

\* C8: with need_2nd_pass clear the call returns 0, sends nothing and does
\* not jump.  With the flag set on an EC without EXEC_IN_RAM it jumps to
\* the newest copy first; it returns 1 exactly when the jump returned 0 and
\* -1 when no copy was eligible or the jump failed.
C8_SecondPassCodes ==
    last.op = "need_2nd_pass" =>
        /\ ~need_2nd_pass =>
                /\ last.rc = 0
                /\ ~last.j.called
                /\ last.ev = <<>>
        /\ (need_2nd_pass /\ LacksExec) =>
                /\ NewestJump(last)
                /\ Sent(last, "GET_VERSION") # {}
                /\ (last.rc > 0) <=> (last.j.rc = 0)
                /\ (last.j.rc # 0) => (last.rc = -1)
                /\ (last.rc > 0) => (current_image = last.j.resolved)

\* the flag is set, no copy is new, and the call returned -1 without reboot
C8_Witness ==
    /\ last.op = "need_2nd_pass"
    /\ LacksExec
    /\ need_2nd_pass
    /\ fwcopy[EC_IMAGE_RO].flags = 0
    /\ fwcopy[EC_IMAGE_RW].flags = 0
    /\ last.j.queried \in Images
    /\ last.rc = -1
    /\ Sent(last, "REBOOT_EC") = {}

(***************************************************************************)
(* C9.  The chunks of a write that succeeds.                               *)
(***************************************************************************)

\* C9: a write of len bytes with chunk size c that returns 0 sent exactly
\* ceil(len / c) FLASH_WRITE commands, each of at most c bytes, at the
\* offsets addr, addr + c, ..., and their payloads put together are the
\* buffer.
C9_ChunkingLaw ==
    (last.op = "write" /\ last.rc = 0) =>
        LET w == Writes(last)
        IN  /\ Len(w) = ChunkCount(last)
            /\ \A i \in 1..Len(w) :
                /\ w[i].size <= last.chunk
                /\ w[i].size = Len(w[i].data)
                /\ w[i].offset = last.addr + (i - 1) * last.chunk
                /\ w[i] = ExpectedChunk(last, i - 1)
            /\ Payload(w, 1) = last.buf

\* three bytes went out as a chunk of two and a chunk of one
C9_Witness ==
    /\ last.op = "write"
    /\ last.rc = 0
    /\ last.len = 3
    /\ last.chunk = 2
    /\ Len(Writes(last)) = 2

(***************************************************************************)
(* C10.  A denied chunk ends the write.                                    *)
(***************************************************************************)

\* C10: a write that returns SPI_ACCESS_DENIED was denied at one of its
\* chunks, j; the chunks 0..j-1 were sent in order and as they should be,
\* chunk j was sent only if it was the EC that denied it (else chunk j lies
\* in the current image), and no chunk after j was sent.
C10_DeniedChunkEndsWrite ==
    DeniedCall(last) /\ last.op = "write" =>
        LET w == Writes(last)
            j == last.k
        IN  /\ j < ChunkCount(last)
            /\ Len(w) \in {j, j + 1}
            /\ \A i \in 1..Len(w) : w[i] = ExpectedChunk(last, i - 1)
            /\ Len(w) = j => j \in Hits(last)

\* the EC denied the second of more than two chunks
C10_Witness ==
    /\ last.op = "write"
    /\ last.rc = SPI_ACCESS_DENIED
    /\ last.k = 1
    /\ Len(Writes(last)) = 2
    /\ ChunkCount(last) > 2

(***************************************************************************)
(* C11.  The polls of an asynchronous erase.                               *)
(***************************************************************************)

\* how many polls fit into the time the wait loop allows
PollBudget == CROS_EC_ERASE_ASYNC_TIMEOUT \div CROS_EC_ERASE_ASYNC_WAIT

\* where call c polled for the result of its erase
Polls(c) ==
    {i \in Sent(c, "FLASH_ERASE") : c.ev[i].arg = FLASH_ERASE_GET_RESULT}

\* the erase on record was accepted as an asynchronous erase by an EC that
\* answers the polls with "busy" until it completes
AsyncEraseOfBusyEc ==
    /\ last.op = "erase"
    /\ "in" \in DOMAIN last
    /\ \E i \in Sent(last, "FLASH_ERASE") : last.ev[i].arg = FLASH_ERASE_SECTOR_ASYNC
    /\ last.in.e = 0
    /\ last.in.prc = -EC_RES_BUSY

\* C11: an asynchronous erase of an EC that answers "busy" to k polls and
\* then completes sends k + 1 FLASH_ERASE_GET_RESULT commands and returns 0,
\* as long as k + 1 polls fit into the budget of 10 s at 0.5 s a poll; for an
\* EC that does not complete within the budget it sends exactly the polls of
\* the budget and returns the negative status of the last one.
C11_PollsUntilDoneOrBudget ==
    LET \* call c waited before each of its polls, and only then
        SleptBeforeEachPoll(c) ==
            /\ \A i \in Polls(c) : i > 1 /\ c.ev[i - 1] = Sleep(CROS_EC_ERASE_ASYNC_WAIT)
            /\ Cardinality(Sent(c, "usleep")) = Cardinality(Polls(c))
    IN
    AsyncEraseOfBusyEc =>
        LET k == last.in.busy
        IN  /\ SleptBeforeEachPoll(last)
            /\ IF k >= 0 /\ k < PollBudget
               THEN Cardinality(Polls(last)) = k + 1 /\ last.rc = 0
               ELSE Cardinality(Polls(last)) = PollBudget /\ last.rc = -EC_RES_BUSY

\* an EC that never completes was polled as often as the budget allows
C11_Witness ==
    /\ AsyncEraseOfBusyEc
    /\ last.in.busy < 0
    /\ Cardinality(Polls(last)) = PollBudget
    /\ last.rc < 0

(***************************************************************************)
(* C12.  Transport failures of the commands of an erase.                   *)
(***************************************************************************)

\* the erase on record, with the answers the EC was going to give
ErasePlanned == last.op = "erase" /\ "in" \in DOMAIN last

\* C12 as stated: when a command of the erase, the version query included,
\* fails in transport, the erase returns that status and so never 0.
C12_TransportFailurePropagated ==
    LET \* the transport errors the commands of the erase on record ran into: of
        \* GET_CMD_VERSIONS, of the erase command and of the polls that were sent
        FailuresMet ==
            (IF Sent(last, "GET_CMD_VERSIONS") # {} THEN {last.in.vrc} ELSE {})
            \cup (IF Sent(last, "FLASH_ERASE") \ Polls(last) # {} THEN {last.in.e} ELSE {})
            \cup {PollRc(last.in, n) : n \in 1..Cardinality(Polls(last))}
    IN
    ErasePlanned =>
        \A x \in FailuresMet \cap TransportErrors : last.rc = x

\* GET_CMD_VERSIONS failed and the erase returned 0 with nothing erased
C12_Witness ==
    /\ ErasePlanned
    /\ Sent(last, "GET_CMD_VERSIONS") # {}
    /\ last.in.vrc \in TransportErrors
    /\ Sent(last, "FLASH_ERASE") = {}
    /\ last.rc = 0

(***************************************************************************)
(* C13.  Failures of the commands of cros_ec_jump_copy.                    *)
(***************************************************************************)

\* the jump of call c could not learn the running copy: GET_VERSION failed
\* or named no copy
QueryAnsweredNothing(c) == c.j.called /\ c.j.queried < 0

\* C13 as stated: a jump whose query of the running copy failed returns
\* failure, sends no REBOOT_EC and leaves current_image alone; a jump whose
\* REBOOT_EC failed returns that negative status, sends no delay and no
\* abort after it, and leaves current_image alone.
C13_JumpFailuresAreFatal ==
    [][LET \* the jump of call c sent REBOOT_EC and the command failed
           RebootRefused(c) ==
               c.j.called /\ Sent(c, "REBOOT_EC") # {} /\ ~c.j.rebooted
       IN
       /\ QueryAnsweredNothing(last') =>
            /\ last'.j.rc # 0
            /\ Sent(last', "REBOOT_EC") = {}
            /\ current_image' = current_image
       /\ RebootRefused(last') =>
            /\ last'.j.rc \in TransportErrors
            /\ Sent(last', "usleep") = {}
            /\ Sent(last', "RWSIG_ACTION") = {}
            /\ current_image' = current_image]_vars

\* the query failed, and the jump went on to reboot the EC and returned 0
C13_Witness ==
    /\ QueryAnsweredNothing(last)
    /\ Sent(last, "REBOOT_EC") # {}
    /\ last.j.rebooted
    /\ last.j.rc = 0

(***************************************************************************)
(* C14.  The reboot command of a jump to RO with RWSIG.                    *)
(***************************************************************************)

\* the jump of the call on record went for RO with rwsig_enabled set
JumpToRoWithRwsig ==
    last.j.called /\ rwsig_enabled /\ last.j.resolved = EC_IMAGE_RO

\* C14 as stated: such a jump, the target given as RO or picked as the
\* newest copy, sends EC_REBOOT_COLD and never EC_REBOOT_JUMP_RO.
C14_ColdRebootForRo ==
    JumpToRoWithRwsig =>
        \A i \in Sent(last, "REBOOT_EC") : last.ev[i].arg = EC_REBOOT_COLD

\* the EC reported RW, RO was picked as the newest copy with RWSIG, and
\* EC_REBOOT_JUMP_RO was sent
C14_Witness ==
    /\ JumpToRoWithRwsig
    /\ NewestJump(last)
    /\ last.j.queried = EC_IMAGE_RW
    /\ \E i \in Sent(last, "REBOOT_EC") : last.ev[i].arg = EC_REBOOT_JUMP_RO

(***************************************************************************)
(* C15.  cros_ec_finish.                                                   *)
(***************************************************************************)

ExitAfterDisable == last.op = "exit" /\ wp_disabled

\* C16: once cros_ec_prepare has disabled the protection, the end of the
\* process runs cros_ec_restore_wp exactly once.
C16_ExactlyOneRestoreAtExit == ExitAfterDisable => last.k = 1

\* the latch was cleared, register_shutdown failed, and the process ended
\* without a call of cros_ec_restore_wp
C16_Witness ==
    /\ ExitAfterDisable
    /\ last.k = 0
    /\ last.ev = <<>>
    /\ ~dev_wp

(***************************************************************************)
(* C17.  When cros_ec_restore_wp is registered.                            *)
(***************************************************************************)

\* the step is a cros_ec_prepare that registers one more shutdown function
Registers == last'.op = "prepare" /\ shutdown_fns' = shutdown_fns + 1

\* the cros_ec_prepare of the step found the latch set and cleared it
DisablesWp ==
    /\ last'.op = "prepare"
    /\ detected
    /\ dev_wp
    /\ last'.in.wq = "reply"
    /\ last'.in.wc

DisableFails ==
    /\ last'.op = "prepare"
    /\ detected
    /\ dev_wp
    /\ last'.in.wq = "reply"
    /\ ~last'.in.wc

\* the step left in fwcopy what the FMAP loop makes of the image
Scanned == fwcopy' = ScanAreas(fwcopy, FmapAreas(last'.in.fmap), 1)

\* the step ended in cros_ec_jump_copy(EC_IMAGE_RO) and returned its result
JumpedToRo ==
    /\ last'.j.called
    /\ last'.j.target = EC_IMAGE_RO
    /\ last'.rc = last'.j.rc

\* C18 as stated: after a failed disable cros_ec_prepare scans the FMAP,
\* jumps to RO and returns the result of the jump.
C18_FailedDisableStillJumps ==
    [][DisableFails => (Scanned /\ JumpedToRo)]_vars

\* C18: after a failed disable cros_ec_prepare scans the FMAP and then
\* jumps to RO and returns the result of the jump, or, only on an EC that
\* has EC_FEATURE_EXEC_IN_RAM, sends no reboot and returns 0.
C18_FailedDisableScansThenJumpsOrSkips ==
    [][DisableFails =>
          /\ Scanned
          /\ \/ JumpedToRo
             \/ /\ ~last'.j.called
                /\ "EXEC_IN_RAM" \in dev_features
                /\ last'.rc = 0
                /\ Sent(last', "REBOOT_EC") = {}
          /\ "EXEC_IN_RAM" \notin dev_features => JumpedToRo]_vars

\* the latch stayed set, the FMAP was scanned, and the failure of the jump
\* to RO is what cros_ec_prepare returned
C18_Witness ==
    /\ last.op = "prepare"
    /\ last.in.wq = "reply"
    /\ ~last.in.wc
    /\ dev_wp
    /\ last.in.fmap = "same"
    /\ fwcopy[EC_IMAGE_RW].flags = 1
    /\ last.j.called
    /\ last.j.target = EC_IMAGE_RO
    /\ last.rc # 0
    /\ last.rc = last.j.rc

(***************************************************************************)
(* C19.  An image without an FMAP.                                         *)
(***************************************************************************)

\* C19: a cros_ec_prepare whose image has no FMAP leaves no copy marked
\* new, whatever ran before it in the process, and with no copy marked new
\* cros_ec_jump_copy(EC_IMAGE_UNKNOWN) fails.
C19_NoFmapNoFreshCopy ==
    [][LET \* the cros_ec_prepare of the step reached fmap_read_from_buffer, which
           \* found no FMAP in the image
           ParseFails ==
               /\ last'.op = "prepare"
               /\ detected
               /\ last'.in.wq = "reply"
               /\ ~(dev_wp /\ last'.in.wc /\ last'.in.rs # 0)
               /\ last'.in.fmap = "none"
           \* no copy is marked new in the table
           NoneFresh(fw) == \A i \in EC_IMAGE_RO..FWCOPY_LAST : fw[i].flags = 0
       IN
       /\ ParseFails => NoneFresh(fwcopy')
       /\ (NewestJump(last') /\ NoneFresh(fwcopy)) => last'.j.rc # 0]_vars

\* a second cros_ec_prepare found no FMAP and RW is still marked new from
\* the image of the first
C19_Witness ==
    /\ last.op = "prepare"
    /\ last.in.wq = "reply"
    /\ last.in.fmap = "none"
    /\ last.rc = 0
    /\ fwcopy[EC_IMAGE_RW].flags = 1

(***************************************************************************)
(* C20.  An update in two passes.                                          *)
(***************************************************************************)

\* C20: with new RO and RW copies and the EC in RW, an erase inside RW is
\* denied, marks RW old and sets need_2nd_pass; the jump to the newest copy
\* then resolves to RO and leaves current_image = RO; the same erase, with
\* the session in RO and an EC that answers the erase with 0, returns 0.
C20_TwoPassUpdate ==
    [][LET \* the step is an erase of 4 KiB at 0x20000, inside the RW region
           ErasesInRw ==
               /\ last'.op = "erase"
               /\ last'.addr = TwoPassBlock[1]
               /\ last'.len = TwoPassBlock[2]
           \* the image has new RO and RW copies and the EC, which lacks EXEC_IN_RAM,
           \* executes RW, as the session knows
           FreshBothInRw ==
               /\ fwcopy[EC_IMAGE_RO].flags = 1
               /\ fwcopy[EC_IMAGE_RW].flags = 1
               /\ dev_image = EC_IMAGE_RW
               /\ current_image = EC_IMAGE_RW
               /\ LacksExec
           \* first pass: the erase is denied before anything is sent to erase, RW is
           \* marked old, RO is not, and the 2nd pass is asked for
           FirstPassDenied ==
               /\ last'.rc = SPI_ACCESS_DENIED
               /\ Sent(last', "FLASH_ERASE") = {}
               /\ fwcopy'[EC_IMAGE_RW].flags = 0
               /\ fwcopy'[EC_IMAGE_RO].flags = 1
               /\ need_2nd_pass'
               /\ current_image' = EC_IMAGE_RW
           \* the jump to the newest copy of an EC that answers: it goes for RO, and
           \* once the EC has taken the reboot the session is in RO
           NewestGoesToRo ==
               /\ last'.j.resolved = EC_IMAGE_RO
               /\ \E i \in Sent(last', "REBOOT_EC") : last'.ev[i].arg = EC_REBOOT_JUMP_RO
               /\ last'.j.rebooted => (last'.j.rc = 0 /\ current_image' = EC_IMAGE_RO)
               /\ last'.j.rc = 0 => current_image' = EC_IMAGE_RO
           \* second pass: the erase is sent to the EC and succeeds
           RetrySucceeds ==
               /\ last'.rc = 0
               /\ last'.in.vrc >= 0 =>
                     \E i \in Sent(last', "FLASH_ERASE") :
                         /\ last'.ev[i].offset = TwoPassBlock[1]
                         /\ last'.ev[i].size = TwoPassBlock[2]
       IN
       /\ (ErasesInRw /\ FreshBothInRw) => FirstPassDenied
       /\ (NewestJump(last') /\ fwcopy[EC_IMAGE_RO].flags = 1
              /\ last'.j.queried = EC_IMAGE_RW) => NewestGoesToRo
       /\ (ErasesInRw /\ current_image = EC_IMAGE_RO /\ last'.in.e = 0)
              => RetrySucceeds]_vars

\* the end of the scenario: RW was marked old by the denial, the jump to
\* the newest copy went to RO, and the same erase has now returned 0
C20_Witness ==
    /\ last.op = "erase"
    /\ last.addr = TwoPassBlock[1]
    /\ last.len = TwoPassBlock[2]
    /\ last.in.vrc = 0
    /\ last.in.e = 0
    /\ last.rc = 0
    /\ Sent(last, "FLASH_ERASE") # {}
    /\ prior = [newest |-> TRUE, ok |-> TRUE, resolved |-> EC_IMAGE_RO]
    /\ current_image = EC_IMAGE_RO
    /\ dev_image = EC_IMAGE_RO
    /\ need_2nd_pass
    /\ fwcopy[EC_IMAGE_RW].flags = 0
    /\ fwcopy[EC_IMAGE_RO].flags = 1
    /\ LacksExec

(***************************************************************************)
(* C21.  The flag of RO after the jump of cros_ec_prepare.                 *)
(***************************************************************************)

\* cros_ec_prepare has ended in a successful cros_ec_jump_copy(EC_IMAGE_RO)
PrepareForcedRo ==
    /\ last.op = "prepare"
    /\ last.j.called
    /\ last.j.target = EC_IMAGE_RO
    /\ last.j.rc = 0

\* C21: right after cros_ec_prepare has forced the EC into RO, RO is not
\* marked new in fwcopy, whatever the FMAP of the image holds.
C21_RoNotFreshAfterPrepare ==
    PrepareForcedRo => fwcopy[EC_IMAGE_RO].flags = 0

\* the image has an EC_RO area, the EC was rebooted into RO by
\* cros_ec_prepare, and RO is marked new
C21_Witness ==
    /\ PrepareForcedRo
    /\ last.in.fmap = "same"
    /\ last.j.rebooted
    /\ current_image = EC_IMAGE_RO
    /\ dev_image = EC_IMAGE_RO
    /\ fwcopy[EC_IMAGE_RO].flags = 1

(***************************************************************************)
(* C22.  A geometry of size zero at probe time.                            *)
(***************************************************************************)

\* the version of FLASH_INFO that the probe on record used
ProbeVersion == CmdVersion(last.in.mask, last.in.ub)

\* the probe on record received the description of the flash
GotFlashInfo ==
    /\ last.op = "probe"
    /\ last.in.q = "image"
    /\ last.in.vrc >= 0
    /\ last.in.irc >= 0
    /\ ProbeVersion >= 2 => (last.in.mok /\ last.in.irc2 >= 0)

\* C22: when FLASH_INFO describes an erase block or a bank of size zero,
\* cros_ec_probe_size does not report a chip.
C22_ZeroGeometryFailsProbe ==
    LET \* that description has an erase block of size 0 or a bank of no block
        ZeroGeometry ==
            IF ProbeVersion < 2
            THEN last.in.erase_block_size = 0
            ELSE \E i \in DOMAIN last.in.banks : last.in.banks[i].count = 0
    IN
    (GotFlashInfo /\ ZeroGeometry) => last.rc = 0

\* a v2 reply with a bank of no block, and the probe reports the chip with
\* an eraser of 0 blocks
C22_Witness ==
    /\ GotFlashInfo
    /\ ProbeVersion = 2
    /\ last.in.override = 0
    /\ last.in.banks = <<Bank(0, 12, 12)>>
    /\ last.rc = 1
    /\ ~last.crashed
    /\ last.geo.blocks = <<[size |-> 4096, count |-> 0]>>

(***************************************************************************)
(* C23.  The test of in_current_image.                                     *)
(***************************************************************************)

\* the call on record is the test of a range against a region
Tested == last.op = "in_current_image"

\* the range and the region of the call on record share a byte
Intersects == Overlap(last.addr, last.len, last.off, last.size)

\* neither is empty and neither runs past the end of the address space
Proper ==
    /\ last.len >= 1
    /\ last.size >= 1
    /\ last.addr + last.len <= WordMod
    /\ last.off + last.size <= WordMod

\* C23 as stated: the test is 1 exactly when [addr, addr + len) and
\* [offset, offset + size) intersect, for all values.
C23_TestIsIntersection ==
    Tested => (last.rc = 1 <=> Intersects)

\* C23: for a range and a region of at least one byte that end within the
\* address space, the test is 1 exactly when they intersect.
C23_TestIsIntersectionOfProper ==
    Tested =>
        /\ Proper => (last.rc = 1 <=> Intersects)
        /\ last.rc \in {0, 1}

\* a range of two bytes that ends on the first byte of the region
C23_Witness ==
    /\ Tested
    /\ Proper
    /\ last.addr = 1
    /\ last.len = 2
    /\ last.off = 2
    /\ last.size = 1
    /\ last.rc = 1

(***************************************************************************)
(* C24.  The version of the erase command.                                 *)
(***************************************************************************)

\* the erase on record sent a FLASH_ERASE command
EraseSent == ErasePlanned /\ Sent(last, "FLASH_ERASE") # {}

\* C24: every FLASH_ERASE command of an erase carries the highest version
\* whose bit is set in the mask that GET_CMD_VERSIONS returned, whatever
\* the mask.
C24_HighestVersionUsed ==
    LET \* bit v is set in mask and no higher bit is
        HighestSet(mask, v) ==
            /\ v >= 0
            /\ (mask \div (2 ^ v)) % 2 = 1
            /\ mask < 2 ^ (v + 1)
    IN
    EraseSent =>
        \A i \in Sent(last, "FLASH_ERASE") :
            \E v \in -1..WordBits :
                last.ev[i].ver = v /\ HighestSet(last.in.mask, v)

\* the mask was 0 and the erase went out with a version no bit stands for
C24_Witness ==
    /\ EraseSent
    /\ last.in.mask = 0
    /\ \E i \in Sent(last, "FLASH_ERASE") : last.ev[i].ver = -1
    /\ last.rc = 0

(***************************************************************************)
(* C25.  Synchronous and asynchronous erase.                               *)
(***************************************************************************)

\* the first FLASH_ERASE command of the erase on record
FirstErase == CHOOSE i \in Sent(last, "FLASH_ERASE") :
                  \A k \in Sent(last, "FLASH_ERASE") : i <= k

\* C25: with version 0 an erase sends one synchronous erase and no poll
\* whatever the length; with version >= 1 it sends one synchronous erase
\* and no poll below 16 KiB, and an asynchronous submission followed by
\* FLASH_ERASE_GET_RESULT polls from 16 KiB on.
C25_EraseModeSelection ==
    LET \* the erase on record sent one erase command, not asynchronous, and no poll
        OneSynchronousErase ==
            /\ Cardinality(Sent(last, "FLASH_ERASE")) = 1
            /\ last.ev[FirstErase].arg = FLASH_ERASE_SECTOR
            /\ Polls(last) = {}
        \* it submitted the erase asynchronously and every later command is a poll;
        \* it polled if and only if the EC took the submission
        AsyncThenPolls ==
            /\ last.ev[FirstErase].arg = FLASH_ERASE_SECTOR_ASYNC
            /\ Polls(last) = Sent(last, "FLASH_ERASE") \ {FirstErase}
            /\ Polls(last) # {} <=> last.in.e = 0
    IN
    EraseSent =>
        LET v == last.ev[FirstErase].ver
        IN  /\ \A i \in Sent(last, "FLASH_ERASE") : last.ev[i].ver = v
            /\ v = 0 => OneSynchronousErase
            /\ (v >= 1 /\ last.len < 16384) => OneSynchronousErase
            /\ (v >= 1 /\ last.len >= 16384) => AsyncThenPolls

\* version mask 0b0010 and 64 KiB: submitted asynchronously, polled three
\* times, done
C25_Witness ==
    /\ EraseSent
    /\ last.in.mask = 2
    /\ last.len = 65536
    /\ last.ev[FirstErase].ver = 1
    /\ last.ev[FirstErase].arg = FLASH_ERASE_SECTOR_ASYNC
    /\ Cardinality(Polls(last)) = 3
    /\ last.rc = 0

(***************************************************************************)
(* C26.  A busy EC.                                                        *)
(***************************************************************************)

\* how many polls the erase on record sent
PollCount == Cardinality(Polls(last))

\* the EC answered the erase or its submission with EC_RES_BUSY: the call
\* sent nothing more and returned that status
BusySubmitEndsErase ==
    last.in.e = -EC_RES_BUSY =>
        /\ Cardinality(Sent(last, "FLASH_ERASE")) = 1
        /\ last.rc = -EC_RES_BUSY

\* C26 as stated: after an answer of EC_RES_BUSY to any FLASH_ERASE command,
\* the submission or a poll, the erase sends no other and returns the error.
C26_BusyNeverRetried ==
    EraseSent =>
        /\ BusySubmitEndsErase
        /\ \A n \in 1..PollCount :
              PollRc(last.in, n) = -EC_RES_BUSY =>
                  (n = PollCount /\ last.rc = -EC_RES_BUSY)

\* C26: an answer of EC_RES_BUSY to the erase command or to the asynchronous
\* submission ends the call at once with that error; an answer of
\* EC_RES_BUSY to a poll is followed by another poll as long as the budget
\* of polls lasts.
C26_BusySubmitFatalBusyPollRetried ==
    EraseSent =>
        /\ BusySubmitEndsErase
        /\ \A n \in 1..PollCount :
              (PollRc(last.in, n) = -EC_RES_BUSY /\ n < PollBudget)
                  => n < PollCount

\* the asynchronous submission of 64 KiB was answered EC_RES_BUSY
C26_Witness ==
    /\ EraseSent
    /\ last.len = 65536
    /\ last.in.e = -EC_RES_BUSY
    /\ last.ev[FirstErase].arg = FLASH_ERASE_SECTOR_ASYNC
    /\ PollCount = 0
    /\ last.rc = -EC_RES_BUSY

(***************************************************************************)
(* C27.  EC_RES_ACCESS_DENIED from the EC.                                 *)
(***************************************************************************)

\* the EC answered the erase command of the erase on record, or a chunk of
\* the write on record, with EC_RES_ACCESS_DENIED
DeniedByEc ==
    \/ /\ last.op = "erase"
       /\ Sent(last, "FLASH_ERASE") # {}
       /\ last.in.e = -EC_RES_ACCESS_DENIED
    \/ /\ last.op = "write"
       /\ ~last.in.oom
       /\ last.in.bad = -EC_RES_ACCESS_DENIED
       /\ Len(Writes(last)) = last.in.failAt + 1

\* C27: when the EC answers an erase command (version 0 or 1) or a chunk of
\* a write with EC_RES_ACCESS_DENIED, the call returns SPI_ACCESS_DENIED,
\* every copy whose area overlaps the range of the call is marked old and
\* need_2nd_pass is set, with or without EC_FEATURE_EXEC_IN_RAM.
C27_DeniedByEcAsByGuard ==
    DeniedByEc => DeniedWithEffects

\* an EC with EXEC_IN_RAM that executes RW denied a write into RW: RW is
\* marked old, RO is not
C27_Witness ==
    /\ DeniedByEc
    /\ last.op = "write"
    /\ ~LacksExec
    /\ current_image = EC_IMAGE_RW
    /\ last.addr = 131072
    /\ last.rc = SPI_ACCESS_DENIED
    /\ need_2nd_pass
    /\ fwcopy[EC_IMAGE_RW] = [offset |-> 131072, size |-> 131072, flags |-> 0]
    /\ fwcopy[EC_IMAGE_RO].flags = 1

(***************************************************************************)
(* C28.  What follows the reboot command of a jump.                        *)
(***************************************************************************)

\* the call on record jumped and its jump sent a REBOOT_EC command
JumpRebooted == last.j.called /\ Sent(last, "REBOOT_EC") # {}

\* where that command stands in the trace of the call
RebootAt == CHOOSE i \in Sent(last, "REBOOT_EC") : TRUE

\* the jump was to RO on an EC with RWSIG: the pending jump is to be aborted
AbortDue == rwsig_enabled /\ last.j.resolved = EC_IMAGE_RO

\* after the reboot command: the delay, then one RWSIG_ACTION if it is due
\* and none if it is not, and the jump has succeeded
DelayThenAbort ==
    /\ Len(last.ev) >= RebootAt + 1
    /\ last.ev[RebootAt + 1] = Sleep(EC_INIT_DELAY)
    /\ IF AbortDue
       THEN /\ Len(last.ev) = RebootAt + 2
            /\ last.ev[RebootAt + 2].cmd = "RWSIG_ACTION"
       ELSE Len(last.ev) = RebootAt + 1
    /\ Cardinality(Sent(last, "RWSIG_ACTION")) = (IF AbortDue THEN 1 ELSE 0)
    /\ last.j.rc = 0

\* C28 as stated: every jump that sends a reboot command goes on with the
\* delay and then with the abort if it is due.
C28_RebootDelayAbort ==
    JumpRebooted =>
        /\ Cardinality(Sent(last, "REBOOT_EC")) = 1
        /\ DelayThenAbort

\* C28: a jump sends at most one reboot command; when the EC accepts it,
\* the delay EC_INIT_DELAY follows, then exactly one RWSIG_ACTION if RWSIG
\* is enabled and the target is RO and none otherwise, and the jump
\* succeeds whatever the abort returned; when the EC refuses it, nothing
\* follows and the jump returns that status.
C28_AcceptedRebootDelayAbort ==
    JumpRebooted =>
        /\ Cardinality(Sent(last, "REBOOT_EC")) = 1
        /\ IF last.j.rebooted
           THEN DelayThenAbort
           ELSE /\ Len(last.ev) = RebootAt
                /\ last.j.rc < 0
                /\ last.rc # 0

\* a cold reboot for RO with RWSIG: the abort was sent and failed, the EC
\* went on into RW, and the jump has succeeded
C28_Witness ==
    /\ JumpRebooted
    /\ last.j.rebooted
    /\ AbortDue
    /\ last.ev[RebootAt].arg = EC_REBOOT_COLD
    /\ last.ev[Len(last.ev)].cmd = "RWSIG_ACTION"
    /\ dev_image = EC_IMAGE_RW
    /\ current_image = EC_IMAGE_RO
    /\ last.j.rc = 0

(***************************************************************************)
(* C29.  The chunk size of a write and the size of the transport.          *)
(***************************************************************************)

\* C29: the chunk size of a write is min(max_data_write - header,
\* ideal_write_size) and every FLASH_WRITE command, header and payload, fits
\* in max_data_write bytes; a write whose chunk size would not be positive
\* fails and sends nothing, whatever max_data_write is.
C29_ChunkFitsTransport ==
    LET \* min(max_data_write - header, ideal_write_size) in the integers
        ChunkWanted ==
            Min(last.mdw - WRITE_HEADER_SIZE, ideal_write_size)
    IN
    (last.op = "write" /\ "mdw" \in DOMAIN last) =>
        IF ChunkWanted > 0
        THEN /\ last.chunk = ChunkWanted
             /\ \A i \in Sent(last, "FLASH_WRITE") :
                    WRITE_HEADER_SIZE + last.ev[i].size <= last.mdw
        ELSE /\ Sent(last, "FLASH_WRITE") = {}
             /\ last.crashed \/ last.rc # 0

\* a transport of 7 bytes, less than the header: a FLASH_WRITE command of
\* the header and 2 bytes went out and the write returned 0
C29_Witness ==
    /\ last.op = "write"
    /\ "mdw" \in DOMAIN last
    /\ last.mdw = 7
    /\ last.chunk = ideal_write_size
    /\ \E i \in Sent(last, "FLASH_WRITE") :
           WRITE_HEADER_SIZE + last.ev[i].size > last.mdw
    /\ ~last.crashed
    /\ last.rc = 0

(***************************************************************************)
(* C30.  fwcopy from one cros_ec_prepare to the next.                      *)
(***************************************************************************)

\* C30: after every cros_ec_prepare of a detected EC, a copy is marked new
\* only if the image of that call has an area of its name, with the offset
\* and size of that area: nothing of an earlier call is left in fwcopy.
C30_TableRebuiltByPrepare ==
    [][LET \* the image with FMAP f has an area named for copy i, at the place that
           \* entry e of the table holds
           HasAreaFor(f, i, e) ==
               /\ i \in EC_IMAGE_RO..EC_IMAGE_RW
               /\ \E k \in DOMAIN FmapAreas(f) :
                     /\ FmapAreas(f)[k].name = sections[i]
                     /\ FmapAreas(f)[k].offset = e.offset
                     /\ FmapAreas(f)[k].size = e.size
       IN
       (last'.op = "prepare" /\ detected) =>
          \A i \in EC_IMAGE_RO..FWCOPY_LAST :
              fwcopy'[i].flags = 1 => HasAreaFor(last'.in.fmap, i, fwcopy'[i])]_vars

\* after a cros_ec_prepare with an image without FMAP the table still holds
\* the areas of an earlier image, RO marked old by a denial, RW marked new
C30_Witness ==
    /\ last.op = "prepare"
    /\ last.in.fmap = "none"
    /\ need_2nd_pass
    /\ fwcopy[EC_IMAGE_RO] = [offset |-> 0, size |-> 65536, flags |-> 0]
    /\ fwcopy[EC_IMAGE_RW] = [offset |-> 65536, size |-> 131072, flags |-> 1]

(***************************************************************************)
(* C31.  What a successful cros_ec_prepare leaves behind.                  *)
(***************************************************************************)

\* C31: after cros_ec_prepare returned 0 on a detected EC without
\* EXEC_IN_RAM the session's current_image is RO and the EC executes RO; in
\* prepare the write-protect query comes before the FMAP scan and the scan
\* before the jump; an EC with EXEC_IN_RAM is not made to jump.
C31_PrepareEndsInRo ==
    [][LET c == last'
           \* the commands of the jump
           OfJump == Sent(c, "GET_VERSION") \cup Sent(c, "REBOOT_EC")
                         \cup Sent(c, "RWSIG_ACTION")
       IN
       (c.op = "prepare" /\ detected) =>
           /\ (c.rc = 0 /\ LacksExec) =>
                  /\ current_image' = EC_IMAGE_RO
                  /\ dev_image' = EC_IMAGE_RO
           /\ \A i \in Sent(c, "FLASH_PROTECT") : \A k \in OfJump : i < k
           /\ Sent(c, "FLASH_PROTECT") = {} => fwcopy' = fwcopy
           /\ c.j.called =>
                  /\ Sent(c, "FLASH_PROTECT") # {}
                  /\ fwcopy' = ScanAreas(fwcopy, FmapAreas(c.in.fmap), 1)
           /\ ~LacksExec => (~c.j.called /\ OfJump = {})]_vars

\* cros_ec_prepare returned 0 on a detected EC without EXEC_IN_RAM: its jump
\* found the EC in RO and sent no reboot, and the session still holds RW
C31_Witness ==
    /\ last.op = "prepare"
    /\ detected
    /\ LacksExec
    /\ last.rc = 0
    /\ last.j.called
    /\ ~last.j.rebooted
    /\ Sent(last, "REBOOT_EC") = {}
    /\ dev_image = EC_IMAGE_RO
    /\ current_image = EC_IMAGE_RW

(***************************************************************************)
(* C32.  The range that a denied write marks old.                          *)
(***************************************************************************)

\* C32: a denied write marks old every copy whose area shares a byte with
\* the whole range (addr, nbytes) of the call, whichever chunk was denied,
\* and leaves the other copies as they were; with RO and RW both marked old
\* a jump to the newest copy finds no copy to go to: it fails and sends no
\* reboot.
C32_DeniedWriteMarksWholeRange ==
    [][LET c == last'
           MarkedOld(i) ==
               Overlap(c.addr, c.len, fwcopy[i].offset, fwcopy[i].size)
           BothOld == fwcopy[EC_IMAGE_RO].flags = 0 /\ fwcopy[EC_IMAGE_RW].flags = 0
       IN
       /\ (c.op = "write" /\ c.rc = SPI_ACCESS_DENIED) =>
              \A i \in EC_IMAGE_RO..FWCOPY_LAST :
                  fwcopy'[i] = IF MarkedOld(i)
                               THEN [fwcopy[i] EXCEPT !.flags = 0]
                               ELSE fwcopy[i]
       /\ (c.j.called /\ c.j.target = EC_IMAGE_UNKNOWN /\ BothOld) =>
              /\ c.j.rc # 0
              /\ c.rc # 0
              /\ ~c.j.rebooted
              /\ Sent(c, "REBOOT_EC") = {}
              /\ dev_image' = dev_image]_vars

\* a write of two bytes over the boundary of RO and RW on an EC in RW: the
\* first chunk, in RO, went out, the second, in RW, was denied, and both
\* copies are marked old
C32_Witness ==
    /\ last.op = "write"
    /\ last.rc = SPI_ACCESS_DENIED
    /\ last.addr = 131071
    /\ last.len = 2
    /\ last.k = 1
    /\ Len(Writes(last)) = 1
    /\ fwcopy[EC_IMAGE_RO] = [offset |-> 0, size |-> 131072, flags |-> 0]
    /\ fwcopy[EC_IMAGE_RW] = [offset |-> 131072, size |-> 131072, flags |-> 0]
    /\ need_2nd_pass

(***************************************************************************)
(* C33.  What changes fwcopy between two FMAP scans.                       *)
(***************************************************************************)

\* C33: in every call but cros_ec_prepare the areas of fwcopy stay where
\* they are and a flag goes from new to old at most; the table changes only
\* in an erase or write that returns SPI_ACCESS_DENIED, so a jump,
\* cros_ec_need_2nd_pass, cros_ec_finish, a read and an erase or write that
\* returns 0 or a transport error leave it as it was; an erase or write
\* that returns 0 leaves need_2nd_pass and current_image as they were.
C33_TableOnlyChangedByDenial ==
    [][LET c == last'
           Programs == c.op \in {"erase", "write"}
       IN
       c.op # "prepare" =>
           /\ \A i \in EC_IMAGE_RO..FWCOPY_LAST :
                  /\ fwcopy'[i].offset = fwcopy[i].offset
                  /\ fwcopy'[i].size = fwcopy[i].size
                  /\ fwcopy'[i].flags <= fwcopy[i].flags
           /\ fwcopy' # fwcopy => (Programs /\ c.rc = SPI_ACCESS_DENIED)
           /\ (Programs /\ c.rc = 0) =>
                  /\ need_2nd_pass' = need_2nd_pass
                  /\ current_image' = current_image]_vars

\* cros_ec_need_2nd_pass has jumped the EC into RW, the newest copy left
\* after RO was marked old by a denial: RO is still old and RW still new
C33_Witness ==
    /\ last.op = "need_2nd_pass"
    /\ last.j.called
    /\ last.j.rebooted
    /\ last.j.rc = 0
    /\ last.j.resolved = EC_IMAGE_RW
    /\ current_image = EC_IMAGE_RW
    /\ need_2nd_pass
    /\ fwcopy[EC_IMAGE_RO] = [offset |-> 0, size |-> 131072, flags |-> 0]
    /\ fwcopy[EC_IMAGE_RW] = [offset |-> 131072, size |-> 131072, flags |-> 1]

====
